---- MODULE Spec2Model ----
(***************************************************************************)
(* Branch and Bound for integer linear programming (src/Branch_Bound.cpp): *)
(* the simplex solver of the LP relaxations and the best-first search.     *)
(*                                                                         *)
(* A double is modelled by an exact fraction <<numerator, denominator>>    *)
(* in lowest terms with a positive denominator.  Sequences are 1-based:    *)
(* a C++ index k is k + 1 here and the C++ "none" index -1 is 0.           *)
(***************************************************************************)
EXTENDS Integers, Sequences, FiniteSets, TLC

\* ------------------------------------------------------------ numbers

Abs(a) == IF a < 0 THEN -a ELSE a

RECURSIVE GCD(_, _)
GCD(a, b) == IF b = 0 THEN a ELSE GCD(b, a % b)

Rat(n, d) ==
    IF d = 1 THEN <<n, 1>>
    ELSE IF n = 0 THEN <<0, 1>>
    ELSE LET g == GCD(Abs(n), d) IN <<n \div g, d \div g>>

R(n) == <<n, 1>>
Zero == <<0, 1>>
One == <<1, 1>>
Half == <<1, 2>>

RNeg(a) == <<-a[1], a[2]>>
RAbs(a) == <<Abs(a[1]), a[2]>>
RAdd(a, b) ==
    IF a[1] = 0 THEN b
    ELSE IF b[1] = 0 THEN a
    ELSE Rat(a[1] * b[2] + b[1] * a[2], a[2] * b[2])
RSub(a, b) == RAdd(a, RNeg(b))
RMul(a, b) ==
    IF a[1] = 0 \/ b[1] = 0 THEN Zero
    ELSE Rat(a[1] * b[1], a[2] * b[2])
RDiv(a, b) ==
    IF a[1] = 0 THEN Zero
    ELSE IF b[1] > 0 THEN Rat(a[1] * b[2], a[2] * b[1])
    ELSE Rat(-(a[1] * b[2]), -(a[2] * b[1]))

\* a < b and a <= b.  The fractions 1/0 and -1/0 stand for the literals 1e30
\* and -1e30, which lie above and below every value the model can hold.
RLt(a, b) == a[1] * b[2] < b[1] * a[2]
RLe(a, b) == a[1] * b[2] <= b[1] * a[2]
Huge == <<1, 0>>
NegHuge == <<-1, 0>>

RFloor(a) == a[1] \div a[2]
RCeil(a) == -((-a[1]) \div a[2])

\* EPSILON = 1e-10.  Two fractions a, b that differ do so by at least
\* 1/(a[2]*b[2]); that product is an integer of the model, below 2^31 < 10^10,
\* so a < b - EPSILON holds exactly when a < b, and x > EPSILON exactly when
\* x > 0.
LtEps(a, b) == RLt(a, b) /\ a[2] * b[2] > 0
GtEps(x) == x[1] > 0

\* x > 1e-6
TolDen == 1000000
GtTol(x) == x[1] > 0 /\ (x[2] \div TolDen) < x[1]

BIG_M == 10000
maxIterations == 100

\* --------------------------------------------------------- SimplexSolver

\* Rows of the given types that precede row i.
RowsBefore(types, i, S) == Cardinality({k \in 1..(i - 1) : types[k] \in S})
NumSlack(types) == RowsBefore(types, Len(types) + 1, {1})
NumSurplus(types) == RowsBefore(types, Len(types) + 1, {2})
NumArtificial(types) == RowsBefore(types, Len(types) + 1, {2, 3})
TotalVars(n, types) == n + NumSlack(types) + NumSurplus(types) + NumArtificial(types)

\* The columns createInitialTableau gives row i: slackIdx, surplusIdx and
\* artificialIdx each start at the head of their block and advance per row.
SlackCol(n, types, i) == n + RowsBefore(types, i, {1}) + 1
SurplusCol(n, types, i) == n + NumSlack(types) + RowsBefore(types, i, {2}) + 1
\* One artificial column shared by all the >= and = rows.
ArtificialColShared(n, types, i) == n + NumSlack(types) + NumSurplus(types) + 1

ArtificialCol(n, types, i) ==
    n + NumSlack(types) + NumSurplus(types) + RowsBefore(types, i, {2, 3}) + 1
FirstArtificialCol(n, types) == n + NumSlack(types) + NumSurplus(types) + 1

\* varNames, by first letter: pushed in row order, not in column order.
RECURSIVE AuxNames(_, _)
AuxNames(types, i) ==
    IF i > Len(types) THEN <<>>
    ELSE (IF types[i] = 1 THEN <<"s">>
          ELSE IF types[i] = 2 THEN <<"e", "a">>
          ELSE <<"a">>) \o AuxNames(types, i + 1)
VarNames(n, types) == [j \in 1..n |-> "x"] \o AuxNames(types, 1)

ConstraintRow(n, cons, r, types, i) ==
    LET numCols == TotalVars(n, types) + 1
    IN  [j \in 1..numCols |->
            IF j <= n THEN cons[i][j]
            ELSE IF j = numCols THEN r[i]
            ELSE IF types[i] = 1 /\ j = SlackCol(n, types, i) THEN One
            ELSE IF types[i] = 2 /\ j = SurplusCol(n, types, i) THEN RNeg(One)
            ELSE IF types[i] # 1 /\ j = ArtificialCol(n, types, i) THEN One
            ELSE Zero]

InitialBasicVars(n, types) ==
    [i \in 1..Len(types) |->
        IF types[i] = 1 THEN SlackCol(n, types, i) ELSE ArtificialCol(n, types, i)]

ObjectiveRow(obj, types, isMax) ==
    [j \in 1..(TotalVars(Len(obj), types) + 1) |->
        IF j <= Len(obj) THEN (IF isMax THEN RNeg(obj[j]) ELSE obj[j]) ELSE Zero]

\* The Big-M loop: for each >= or = row, the first artificial column holding
\* 1 in that row gets +-BIG_M and BIG_M times the row is folded into the
\* objective row.
FoldRow(objRow, row, first, isMax) ==
    LET hits == {j \in first..(Len(row) - 1) : row[j] = One}
    IN  IF hits = {} THEN objRow
        ELSE LET j == CHOOSE h \in hits : \A g \in hits : h <= g
                 set == [objRow EXCEPT ![j] = IF isMax THEN R(BIG_M) ELSE R(-BIG_M)]
             IN  [k \in 1..Len(row) |->
                    IF isMax THEN RSub(set[k], RMul(R(BIG_M), row[k]))
                    ELSE RAdd(set[k], RMul(R(BIG_M), row[k]))]

RECURSIVE FoldBigM(_, _, _, _, _, _)
FoldBigM(objRow, rows, types, first, isMax, i) ==
    IF i > Len(types) THEN objRow
    ELSE FoldBigM(IF types[i] \in {2, 3}
                  THEN FoldRow(objRow, rows[i], first, isMax) ELSE objRow,
                  rows, types, first, isMax, i + 1)

createInitialTableau(obj, cons, r, types, isMax) ==
    LET n == Len(obj)
        rows == [i \in 1..Len(types) |-> ConstraintRow(n, cons, r, types, i)]
    IN  [tableau |-> Append(rows,
                        FoldBigM(ObjectiveRow(obj, types, isMax), rows, types,
                                 FirstArtificialCol(n, types), isMax, 1)),
         varNames |-> VarNames(n, types),
         basicVars |-> InitialBasicVars(n, types)]

RECURSIVE ScanPivotColumn(_, _, _, _, _)
ScanPivotColumn(row, j, best, idx, isMax) ==
    IF j > Len(row) - 1 THEN idx
    ELSE IF (IF isMax THEN LtEps(row[j], best) ELSE LtEps(best, row[j]))
         THEN ScanPivotColumn(row, j + 1, row[j], j, isMax)
         ELSE ScanPivotColumn(row, j + 1, best, idx, isMax)

findPivotColumn(tab, isMax) == ScanPivotColumn(tab[Len(tab)], 1, Zero, 0, isMax)

\* A ratio test in which a later row with an equal ratio replaces the row
\* found so far.
RECURSIVE ScanPivotRowLast(_, _, _, _, _)
ScanPivotRowLast(tab, pivotCol, i, minRatio, minRow) ==
    IF i > Len(tab) - 1 THEN minRow
    ELSE IF GtEps(tab[i][pivotCol])
            /\ RLe(RDiv(tab[i][Len(tab[i])], tab[i][pivotCol]), minRatio)
         THEN ScanPivotRowLast(tab, pivotCol, i + 1,
                               RDiv(tab[i][Len(tab[i])], tab[i][pivotCol]), i)
         ELSE ScanPivotRowLast(tab, pivotCol, i + 1, minRatio, minRow)

RECURSIVE ScanPivotRow(_, _, _, _, _)
ScanPivotRow(tab, pivotCol, i, minRatio, minRow) ==
    IF i > Len(tab) - 1 THEN minRow
    ELSE IF GtEps(tab[i][pivotCol])
            /\ RLt(RDiv(tab[i][Len(tab[i])], tab[i][pivotCol]), minRatio)
         THEN ScanPivotRow(tab, pivotCol, i + 1,
                           RDiv(tab[i][Len(tab[i])], tab[i][pivotCol]), i)
         ELSE ScanPivotRow(tab, pivotCol, i + 1, minRatio, minRow)

findPivotRow(tab, pivotCol) == ScanPivotRow(tab, pivotCol, 1, Huge, 0)

\* A pivot that eliminates the pivot column from the constraint rows only.
performPivotConstraintRows(tab, pRow, pCol) ==
    LET pivotElement == tab[pRow][pCol]
        prow == [j \in 1..Len(tab[pRow]) |-> RDiv(tab[pRow][j], pivotElement)]
    IN  [i \in 1..Len(tab) |->
            IF i = pRow THEN prow
            ELSE IF i = Len(tab) THEN tab[i]
            ELSE [j \in 1..Len(tab[i]) |->
                     RSub(tab[i][j], RMul(tab[i][pCol], prow[j]))]]

performPivot(tab, pivotRow, pivotCol) ==
    LET pivotElement == tab[pivotRow][pivotCol]
        prow == [j \in 1..Len(tab[pivotRow]) |-> RDiv(tab[pivotRow][j], pivotElement)]
    IN  [i \in 1..Len(tab) |->
            IF i = pivotRow THEN prow
            ELSE LET factor == tab[i][pivotCol]
                 IN  IF factor[1] = 0 THEN tab[i]
                     ELSE [j \in 1..Len(tab[i]) |->
                              RSub(tab[i][j], RMul(factor, prow[j]))]]

\* The check after the pivot loop: a basic column whose NAME starts with 'a'
\* in a row whose right-hand side exceeds 1e-6.
ArtificialNamedBasic(tab, names, bv) ==
    \E i \in 1..Len(bv) :
        /\ bv[i] <= Len(names)
        /\ names[bv[i]] = "a"
        /\ GtTol(tab[i][Len(tab[i])])

ExtractSolution(n, tab, bv) ==
    [j \in 1..n |->
        IF \E i \in 1..Len(bv) : bv[i] = j
        THEN LET i == CHOOSE k \in 1..Len(bv) : bv[k] = j /\ \A l \in 1..Len(bv) : bv[l] = j => l <= k
             IN  tab[i][Len(tab[i])]
        ELSE Zero]

RECURSIVE Dot(_, _, _)
Dot(c, x, i) == IF i > Len(c) THEN Zero ELSE RAdd(RMul(c[i], x[i]), Dot(c, x, i + 1))
ObjectiveValue(obj, x) == Dot(obj, x, 1)

\* -------------------------------------------------------- BranchAndBound

\* QueueItem() and TreeNode(id, parent, constraint, d).  A branch label such
\* as "x1 <= 3" is the triple <<1, 1, 3>> (variable, type, value); the labels
\* "" and "ROOT" are <<>>.
NewQueueItem ==
    [extraCons |-> <<>>, extraRhs |-> <<>>, extraTypes |-> <<>>, bound |-> Zero,
     parentId |-> -1, branchInfo |-> <<>>, depth |-> 0]

TreeNode(id, parent, constraint, d) ==
    [nodeId |-> id, parentId |-> parent, branchConstraint |-> constraint,
     depth |-> d, solution |-> <<>>, objValue |-> Zero, status |-> "",
     leftChild |-> -1, rightChild |-> -1, isOptimal |-> FALSE]

\* fabs(val - floor(val + 0.5)) > 1e-6
IsFractional(val) == GtTol(RAbs(RSub(val, R(RFloor(RAdd(val, Half))))))

\* An integrality check that never succeeds.
isIntegerSolutionNever(sol, intVars) == FALSE

\* An integrality check that looks at the first integer variable only.
isIntegerSolutionFirst(sol, intVars) ==
    /\ sol # <<>>
    /\ ~IsFractional(sol[intVars[1]])

isIntegerSolution(sol, intVars) ==
    /\ sol # <<>>
    /\ \A i \in 1..Len(intVars) : ~IsFractional(sol[intVars[i]])

\* The position in integerVars of the first fractional entry (0: none).
findBranchingVariable(sol, intVars) ==
    LET frac == {i \in 1..Len(intVars) : IsFractional(sol[intVars[i]])}
    IN  IF frac = {} THEN 0 ELSE intVars[CHOOSE i \in frac : \A k \in frac : i <= k]

UnitRow(n, varIdx) == [j \in 1..n |-> IF j = varIdx THEN One ELSE Zero]

\* A left entry that starts its lists afresh instead of copying the parent's.
LeftItemFresh(cur, n, varIdx, fracVal, obj, id) ==
    [extraCons |-> <<UnitRow(n, varIdx)>>,
     extraRhs |-> <<R(RFloor(fracVal))>>,
     extraTypes |-> <<1>>,
     bound |-> obj, parentId |-> id,
     branchInfo |-> <<varIdx, 1, RFloor(fracVal)>>, depth |-> cur.depth + 1]

\* The two entries a branch on x_varIdx = fracVal pushes.
LeftItem(cur, n, varIdx, fracVal, obj, id) ==
    [extraCons |-> Append(cur.extraCons, UnitRow(n, varIdx)),
     extraRhs |-> Append(cur.extraRhs, R(RFloor(fracVal))),
     extraTypes |-> Append(cur.extraTypes, 1),
     bound |-> obj, parentId |-> id,
     branchInfo |-> <<varIdx, 1, RFloor(fracVal)>>, depth |-> cur.depth + 1]

\* The right entry with the bound of the left one: x_i >= floor(v).
RightItemFloor(cur, n, varIdx, fracVal, obj, id) ==
    [extraCons |-> Append(cur.extraCons, UnitRow(n, varIdx)),
     extraRhs |-> Append(cur.extraRhs, R(RFloor(fracVal))),
     extraTypes |-> Append(cur.extraTypes, 2),
     bound |-> obj, parentId |-> id,
     branchInfo |-> <<varIdx, 2, RFloor(fracVal)>>, depth |-> cur.depth + 1]

RightItem(cur, n, varIdx, fracVal, obj, id) ==
    [extraCons |-> Append(cur.extraCons, UnitRow(n, varIdx)),
     extraRhs |-> Append(cur.extraRhs, R(RCeil(fracVal))),
     extraTypes |-> Append(cur.extraTypes, 2),
     bound |-> obj, parentId |-> id,
     branchInfo |-> <<varIdx, 2, RCeil(fracVal)>>, depth |-> cur.depth + 1]

\* The bound check with the two directions exchanged.
PruneReversed(isMax, obj, best) == IF isMax THEN RLe(best, obj) ELSE RLe(obj, best)
\* The bound check of the main loop.
Prune(isMax, obj, best) == IF isMax THEN RLe(obj, best) ELSE RLe(best, obj)
\* The incumbent test with the two directions exchanged.
UpdateBestReversed(isMax, obj, best) == IF isMax THEN RLt(obj, best) ELSE RLt(best, obj)
\* The incumbent test of the main loop.
UpdateBest(isMax, obj, best) == IF isMax THEN RLt(best, obj) ELSE RLt(obj, best)

\* An entry no other entry of the queue beats: what the sort puts in front.
\* std::sort leaves the order of entries with equal bounds unspecified, so
\* any entry with the best bound may come out first.
IsFront(q, k, isMax) ==
    \A l \in 1..Len(q) :
        IF isMax THEN RLe(q[l].bound, q[k].bound) ELSE RLe(q[k].bound, q[l].bound)

RemoveAt(q, k) == [l \in 1..(Len(q) - 1) |-> IF l < k THEN q[l] ELSE q[l + 1]]

\* The path from the root to node id, through parentId.
RECURSIVE PathTo(_, _)
PathTo(nodes, id) ==
    IF id = -1 THEN <<>> ELSE Append(PathTo(nodes, nodes[id].parentId), id)

InPath(path, id) == \E k \in 1..Len(path) : path[k] = id

\* ------------------------------------------------------------- inputs

Ints(seq) == [i \in 1..Len(seq) |-> R(seq[i])]

Problem(isMax, obj, cons, r, types, intVars) ==
    [isMaximization |-> isMax, objective |-> obj, constraints |-> cons,
     rhs |-> r, constraintTypes |-> types, integerVars |-> intVars]

\* maximize 5x1 + 4x2, x1 + x2 <= 5, 10x1 + 6x2 <= 45, both integer
PureILP ==
    Problem(TRUE, Ints(<<5, 4>>), <<Ints(<<1, 1>>), Ints(<<10, 6>>)>>,
            Ints(<<5, 45>>), <<1, 1>>, <<1, 2>>)

\* maximize x1, x1 >= 5, x1 <= 2, x1 >= 0, integer
InfeasibleLP ==
    Problem(TRUE, Ints(<<1>>), <<Ints(<<1>>), Ints(<<1>>), Ints(<<1>>)>>,
            Ints(<<5, 2, 0>>), <<2, 1, 2>>, <<1>>)

\* maximize x1, x1 >= 0
UnboundedLP ==
    Problem(TRUE, Ints(<<1>>), <<Ints(<<1>>)>>, Ints(<<0>>), <<2>>, <<1>>)

\* minimize x1, x1 <= 5, x1 >= 0
MinimizeLP ==
    Problem(FALSE, Ints(<<1>>), <<Ints(<<1>>), Ints(<<1>>)>>, Ints(<<5, 0>>),
            <<1, 2>>, <<1>>)

\* maximize 10x1 - 57x2 - 9x3 - 24x4,
\* 0.5x1 - 5.5x2 - 2.5x3 + 9x4 <= 0, 0.5x1 - 1.5x2 - 0.5x3 + x4 <= 0, x1 <= 1:
\* a degenerate LP on which the pivot rules cycle.
CyclingLP ==
    Problem(TRUE, Ints(<<10, -57, -9, -24>>),
            << <<Half, <<-11, 2>>, <<-5, 2>>, R(9)>>,
               <<Half, <<-3, 2>>, <<-1, 2>>, R(1)>>,
               Ints(<<1, 0, 0, 0>>) >>,
            Ints(<<0, 0, 1>>), <<1, 1, 1>>, <<1, 2, 3, 4>>)

\* maximize 18x1 + 14x2 + 8x3 + 4x4, 15x1 + 12x2 + 7x3 + 4x4 <= 37,
\* x1 <= 1, x2 <= 1, x3 <= 1, x4 <= 1, all integer
BinaryILP ==
    Problem(TRUE, Ints(<<18, 14, 8, 4>>),
            <<Ints(<<15, 12, 7, 4>>), Ints(<<1, 0, 0, 0>>), Ints(<<0, 1, 0, 0>>),
              Ints(<<0, 0, 1, 0>>), Ints(<<0, 0, 0, 1>>)>>,
            Ints(<<37, 1, 1, 1, 1>>), <<1, 1, 1, 1, 1>>, <<1, 2, 3, 4>>)

\* maximize -x1, -x1 <= -2, integer: a row entered with a negative
\* right-hand side, which getUserInput stores as typed.
NegativeRhsLP ==
    Problem(TRUE, Ints(<<-1>>), <<Ints(<<-1>>)>>, Ints(<<-2>>), <<1>>, <<1>>)

\* PureILP with the integer variables entered as "2 1": getUserInput keeps
\* the numbers in the order typed.
ReorderedILP ==
    Problem(TRUE, Ints(<<5, 4>>), <<Ints(<<1, 1>>), Ints(<<10, 6>>)>>,
            Ints(<<5, 45>>), <<1, 1>>, <<2, 1>>)

Scenarios ==
    {PureILP, InfeasibleLP, UnboundedLP, MinimizeLP, CyclingLP, BinaryILP,
     NegativeRhsLP, ReorderedILP}

\* Bounds of the generated inputs and of the search.
MaxCoef == 3
MaxRhs == 3
MaxNodes == 10

\* maximize or minimize c x1 + 2 x2 subject to 2 x1 + 3 x2 <= 2b + 1 and
\* x1 (<=, >=, =) r, both integer.
Family ==
    {Problem(isMax, Ints(<<c, 2>>), <<Ints(<<2, 3>>), Ints(<<1, 0>>)>>,
             Ints(<<2 * b + 1, r>>), <<1, t>>, <<1, 2>>) :
        isMax \in BOOLEAN, c \in 1..MaxCoef, b \in 1..MaxRhs, t \in 1..3,
        r \in 1..2}

Problems == Scenarios \cup Family

\* -------------------------------------------------------------- state

VARIABLES
    \* BranchAndBound members
    isMaximization, objective, constraints, rhs, constraintTypes, integerVars,
    bestSolution, bestObjValue, iteration, treeNodes, optimalPath,
    \* locals of BranchAndBound::solve
    queue, nodeCounter, current, solution, objValue, pc,
    \* the SimplexSolver of the subproblem being solved
    tableau, varNames, basicVars, iter, isFeasible, isUnbounded

problem == <<isMaximization, objective, constraints, rhs, constraintTypes, integerVars>>
search == <<bestSolution, bestObjValue, iteration, treeNodes, optimalPath,
            queue, nodeCounter, current>>
result == <<solution, objValue>>
solver == <<tableau, varNames, basicVars, iter, isFeasible, isUnbounded>>

\* KnapsackSolver members, and the position of its solve(): kpc, and the row
\* i of the fill loop.  Items are numbered from 1; dpTable keeps the
\* source's indices 0..n and 0..W.
VARIABLES
    numItems, capacity, weights, values, excludedItems, requiredItems,
    dpTable, selectedItems, kpc, row

knapsack == <<numItems, capacity, weights, values, excludedItems, requiredItems,
              dpTable, selectedItems, kpc, row>>

\* The three other programs of the repository, each held as one record with
\* the members of its class as fields: the TSPSolver of src/Knapsack.cpp, the
\* BigMMethod of src/unnamed/part_001 and the PathSolver of
\* src/unnamed/part_003.
VARIABLES tsp, bigM, pathSolver

otherPrograms == <<knapsack, tsp, bigM, pathSolver>>

vars == <<problem, search, result, solver, pc, knapsack, tsp, bigM, pathSolver>>

\* A program that is not running.
TSPIdle == tsp = [pc |-> "idle"]
BigMIdle == bigM = [pc |-> "idle"]
PathSolverIdle == pathSolver = [pc |-> "idle"]

\* KnapsackSolver(): no items, nothing solved.
KnapsackIdle ==
    /\ numItems = 0
    /\ capacity = 0
    /\ weights = <<>>
    /\ values = <<>>
    /\ excludedItems = {}
    /\ requiredItems = {}
    /\ dpTable = <<>>
    /\ selectedItems = <<>>
    /\ kpc = "idle"
    /\ row = 0

numVariables == Len(objective)
numConstraints == Len(constraints)

Init ==
    /\ \E p \in Problems :
        /\ isMaximization = p.isMaximization
        /\ objective = p.objective
        /\ constraints = p.constraints
        /\ rhs = p.rhs
        /\ constraintTypes = p.constraintTypes
        /\ integerVars = p.integerVars
    /\ bestSolution = <<>>
    /\ bestObjValue = Zero
    /\ iteration = 0
    /\ treeNodes = <<>>
    /\ optimalPath = <<>>
    /\ queue = <<>>
    /\ nodeCounter = 0
    /\ current = NewQueueItem
    /\ solution = <<>>
    /\ objValue = Zero
    /\ pc = "start"
    /\ tableau = <<>>
    /\ varNames = <<>>
    /\ basicVars = <<>>
    /\ iter = 0
    /\ isFeasible = TRUE
    /\ isUnbounded = FALSE
    /\ KnapsackIdle
    /\ TSPIdle
    /\ BigMIdle
    /\ PathSolverIdle

\* solveSubproblem: the root rows followed by the entry's extra rows go to a
\* fresh SimplexSolver, whose solve() starts with createInitialTableau.
AllCons(item) == constraints \o item.extraCons
AllRhs(item) == rhs \o item.extraRhs
AllTypes(item) == constraintTypes \o item.extraTypes

\* A solver that keeps the objective row of the solve before when the new
\* tableau has the shape of the old one.
StartSolverStale(item) ==
    LET t == createInitialTableau(objective, AllCons(item), AllRhs(item),
                                  AllTypes(item), isMaximization)
        m == Len(t.tableau)
        same == /\ tableau # <<>>
                /\ Len(tableau) = m
                /\ Len(tableau[1]) = Len(t.tableau[1])
    IN  /\ tableau' = IF same THEN [t.tableau EXCEPT ![m] = tableau[m]] ELSE t.tableau
        /\ varNames' = t.varNames
        /\ basicVars' = t.basicVars
        /\ iter' = 0
        /\ isFeasible' = TRUE
        /\ isUnbounded' = FALSE

StartSolver(item) ==
    LET t == createInitialTableau(objective, AllCons(item), AllRhs(item),
                                  AllTypes(item), isMaximization)
    IN  /\ tableau' = t.tableau
        /\ varNames' = t.varNames
        /\ basicVars' = t.basicVars
        /\ iter' = 0
        /\ isFeasible' = TRUE
        /\ isUnbounded' = FALSE

Solving == pc \in {"rootSimplex", "nodeSimplex"}
Solved == IF pc = "rootSimplex" THEN "rootSolved" ELSE "nodeSolved"

pivotCol == findPivotColumn(tableau, isMaximization)
pivotRow == findPivotRow(tableau, pivotCol)

\* STEP 1: the root relaxation is handed to the solver.
SolveRoot ==
    /\ pc = "start"
    /\ StartSolver(NewQueueItem)
    /\ pc' = "rootSimplex"
    /\ UNCHANGED <<otherPrograms, problem, search, result>>

\* One pass of the pivot loop that pivots.
Pivot ==
    /\ Solving
    /\ iter < maxIterations
    /\ pivotCol # 0
    /\ pivotRow # 0
    /\ tableau' = performPivot(tableau, pivotRow, pivotCol)
    /\ basicVars' = [basicVars EXCEPT ![pivotRow] = pivotCol]
    /\ iter' = iter + 1
    /\ UNCHANGED <<otherPrograms, problem, search, result, varNames, isFeasible, isUnbounded, pc>>

\* A pass whose ratio test finds no row.
Unbounded ==
    /\ Solving
    /\ iter < maxIterations
    /\ pivotCol # 0
    /\ pivotRow = 0
    /\ isUnbounded' = TRUE
    /\ solution' = <<>>
    /\ objValue' = Zero
    /\ pc' = Solved
    /\ UNCHANGED <<otherPrograms, problem, search, tableau, varNames, basicVars, iter, isFeasible>>

\* The pivot loop has ended: no improving column, or maxIterations passes.
LoopEnded == Solving /\ (iter >= maxIterations \/ pivotCol = 0)

Infeasible ==
    /\ LoopEnded
    /\ ArtificialNamedBasic(tableau, varNames, basicVars)
    /\ isFeasible' = FALSE
    /\ solution' = <<>>
    /\ objValue' = Zero
    /\ pc' = Solved
    /\ UNCHANGED <<otherPrograms, problem, search, tableau, varNames, basicVars, iter, isUnbounded>>

Extract ==
    /\ LoopEnded
    /\ ~ArtificialNamedBasic(tableau, varNames, basicVars)
    /\ solution' = ExtractSolution(numVariables, tableau, basicVars)
    /\ objValue' = ObjectiveValue(objective, solution')
    /\ pc' = Solved
    /\ UNCHANGED <<otherPrograms, problem, search, solver>>

\* ------------------------------------------------- BranchAndBound::solve

RootNode ==
    [TreeNode(0, -1, <<>>, 0) EXCEPT !.solution = solution, !.objValue = objValue]

\* rootSol.empty(): "Problem is INFEASIBLE!"
RootInfeasible ==
    /\ pc = "rootSolved"
    /\ solution = <<>>
    /\ treeNodes' = (0 :> [RootNode EXCEPT !.status = "INFEASIBLE"])
    /\ pc' = "done"
    /\ UNCHANGED <<otherPrograms, problem, bestSolution, bestObjValue, iteration, optimalPath,
                   queue, nodeCounter, current, result, solver>>

\* The root relaxation is integral: it is recorded as the optimum.
RootInteger ==
    /\ pc = "rootSolved"
    /\ solution # <<>>
    /\ isIntegerSolution(solution, integerVars)
    /\ treeNodes' = (0 :> [RootNode EXCEPT !.status = "INTEGER", !.isOptimal = TRUE])
    /\ bestSolution' = solution
    /\ bestObjValue' = objValue
    /\ optimalPath' = <<0>>
    /\ pc' = "done"
    /\ UNCHANGED <<otherPrograms, problem, iteration, queue, nodeCounter, current, result, solver>>

\* Otherwise the root is queued with the root objective as its bound.
RootBranched ==
    /\ pc = "rootSolved"
    /\ solution # <<>>
    /\ ~isIntegerSolution(solution, integerVars)
    /\ treeNodes' = (0 :> [RootNode EXCEPT !.status = "BRANCHED"])
    /\ bestObjValue' = IF isMaximization THEN NegHuge ELSE Huge
    /\ queue' = <<[NewQueueItem EXCEPT !.bound = objValue, !.parentId = 0]>>
    /\ nodeCounter' = 0
    /\ pc' = "loop"
    /\ UNCHANGED <<otherPrograms, problem, bestSolution, iteration, optimalPath, current, result, solver>>

\* while (!queue.empty()): sort, pop the front, and solve its subproblem.  A
\* depth-0 entry met after iteration 1 is dropped unsolved.
Select ==
    /\ pc = "loop"
    /\ queue # <<>>
    /\ nodeCounter < MaxNodes
    /\ \E k \in 1..Len(queue) :
        /\ IsFront(queue, k, isMaximization)
        /\ iteration' = iteration + 1
        /\ current' = queue[k]
        /\ queue' = RemoveAt(queue, k)
        /\ IF queue[k].depth = 0 /\ iteration' > 1
           THEN /\ pc' = "loop"
                /\ UNCHANGED solver
           ELSE /\ pc' = "nodeSimplex"
                /\ StartSolver(queue[k])
    /\ UNCHANGED <<otherPrograms, problem, bestSolution, bestObjValue, treeNodes, optimalPath,
                   nodeCounter, result>>

\* The queue is empty: the tree is drawn and the final solution displayed.
Finish ==
    /\ pc = "loop"
    /\ queue = <<>>
    /\ pc' = "done"
    /\ UNCHANGED <<otherPrograms, problem, search, result, solver>>

\* The id of the entry just solved, and the tree with its node recorded: an
\* entry of depth > 0 gets the next id and becomes its parent's leftChild if
\* the parent has none yet, its rightChild otherwise.
currentNodeId == IF current.depth > 0 THEN nodeCounter + 1 ELSE 0

Recorded ==
    IF current.depth > 0
    THEN LET node == [TreeNode(currentNodeId, current.parentId, current.branchInfo,
                               current.depth)
                        EXCEPT !.solution = solution, !.objValue = objValue]
             parent == treeNodes[current.parentId]
         IN  [treeNodes EXCEPT ![current.parentId] =
                 IF parent.leftChild = -1
                 THEN [parent EXCEPT !.leftChild = currentNodeId]
                 ELSE [parent EXCEPT !.rightChild = currentNodeId]]
             @@ (currentNodeId :> node)
    ELSE treeNodes

\* A status assignment that is lost.
SetStatusLost(nodes, id, st) == nodes

SetStatus(nodes, id, st) == [nodes EXCEPT ![id].status = st]

NodeInfeasible ==
    /\ pc = "nodeSolved"
    /\ solution = <<>>
    /\ nodeCounter' = IF current.depth > 0 THEN nodeCounter + 1 ELSE nodeCounter
    /\ treeNodes' = SetStatus(Recorded, currentNodeId, "INFEASIBLE")
    /\ pc' = "loop"
    /\ UNCHANGED <<otherPrograms, problem, bestSolution, bestObjValue, iteration, optimalPath,
                   queue, current, result, solver>>

NodePruned ==
    /\ pc = "nodeSolved"
    /\ solution # <<>>
    /\ Prune(isMaximization, objValue, bestObjValue)
    /\ nodeCounter' = IF current.depth > 0 THEN nodeCounter + 1 ELSE nodeCounter
    /\ treeNodes' = SetStatus(Recorded, currentNodeId, "PRUNED")
    /\ pc' = "loop"
    /\ UNCHANGED <<otherPrograms, problem, bestSolution, bestObjValue, iteration, optimalPath,
                   queue, current, result, solver>>

NodeInteger ==
    /\ pc = "nodeSolved"
    /\ solution # <<>>
    /\ ~Prune(isMaximization, objValue, bestObjValue)
    /\ isIntegerSolution(solution, integerVars)
    /\ nodeCounter' = IF current.depth > 0 THEN nodeCounter + 1 ELSE nodeCounter
    /\ LET marked == SetStatus(Recorded, currentNodeId, "INTEGER")
           path == PathTo(marked, currentNodeId)
       IN  IF UpdateBest(isMaximization, objValue, bestObjValue)
           THEN /\ bestSolution' = solution
                /\ bestObjValue' = objValue
                /\ optimalPath' = path
                /\ treeNodes' = [id \in DOMAIN marked |->
                                    [marked[id] EXCEPT !.isOptimal = InPath(path, id)]]
           ELSE /\ treeNodes' = marked
                /\ UNCHANGED <<bestSolution, bestObjValue, optimalPath>>
    /\ pc' = "loop"
    /\ UNCHANGED <<otherPrograms, problem, iteration, queue, current, result, solver>>

NodeBranch ==
    /\ pc = "nodeSolved"
    /\ solution # <<>>
    /\ ~Prune(isMaximization, objValue, bestObjValue)
    /\ ~isIntegerSolution(solution, integerVars)
    /\ nodeCounter' = IF current.depth > 0 THEN nodeCounter + 1 ELSE nodeCounter
    /\ treeNodes' = SetStatus(Recorded, currentNodeId, "BRANCHED")
    /\ LET varIdx == findBranchingVariable(solution, integerVars)
           fracVal == solution[varIdx]
       IN  queue' = queue \o
              <<LeftItem(current, numVariables, varIdx, fracVal, objValue, currentNodeId),
                RightItem(current, numVariables, varIdx, fracVal, objValue, currentNodeId)>>
    /\ pc' = "loop"
    /\ UNCHANGED <<otherPrograms, problem, bestSolution, bestObjValue, iteration, optimalPath,
                   current, result, solver>>

Next ==
    \/ SolveRoot
    \/ Pivot
    \/ Unbounded
    \/ Infeasible
    \/ Extract
    \/ RootInfeasible
    \/ RootInteger
    \/ RootBranched
    \/ Select
    \/ Finish
    \/ NodeInfeasible
    \/ NodePruned
    \/ NodeInteger
    \/ NodeBranch

Spec == Init /\ [][Next]_vars

\* No step is possible: solve has returned, or the search has reached the
\* node bound of the model.
Halted == pc = "done" \/ (pc = "loop" /\ queue # <<>> /\ nodeCounter >= MaxNodes)

\* The search is sequential, so a step that is possible is taken: weak
\* fairness of Next, written out with Halted as the states that enable no
\* step.
FairSpec == Spec /\ ([]<>Halted \/ []<><<Next>>_vars)

\* ------------------------------------------------------- KnapsackSolver

\* Bounds of the knapsack inputs.
MaxItems == 2
MaxCapacity == 4
MaxWeight == 3
MaxValue == 2

branchAndBound == <<problem, search, result, solver, pc>>

\* No branch-and-bound problem is loaded.
BranchAndBoundIdle ==
    /\ isMaximization = TRUE
    /\ objective = <<>>
    /\ constraints = <<>>
    /\ rhs = <<>>
    /\ constraintTypes = <<>>
    /\ integerVars = <<>>
    /\ bestSolution = <<>>
    /\ bestObjValue = Zero
    /\ iteration = 0
    /\ treeNodes = <<>>
    /\ optimalPath = <<>>
    /\ queue = <<>>
    /\ nodeCounter = 0
    /\ current = NewQueueItem
    /\ solution = <<>>
    /\ objValue = Zero
    /\ pc = "idle"
    /\ tableau = <<>>
    /\ varNames = <<>>
    /\ basicVars = <<>>
    /\ iter = 0
    /\ isFeasible = TRUE
    /\ isUnbounded = FALSE

\* getUserInput: numItems > 0, capacity > 0, weights > 0, values >= 0, and a
\* required item is never an excluded one.  main then calls solve().
KnapsackInit ==
    /\ BranchAndBoundIdle
    /\ TSPIdle
    /\ BigMIdle
    /\ PathSolverIdle
    /\ \E n \in 1..MaxItems, W \in 1..MaxCapacity :
        \E ws \in [1..n -> 1..MaxWeight], vs \in [1..n -> 0..MaxValue],
           ex \in SUBSET (1..n) :
            \E req \in SUBSET ((1..n) \ ex) :
                /\ numItems = n
                /\ capacity = W
                /\ weights = ws
                /\ values = vs
                /\ excludedItems = ex
                /\ requiredItems = req
    /\ dpTable = <<>>
    /\ selectedItems = <<>>
    /\ kpc = "solve"
    /\ row = 0

RECURSIVE SumOver(_, _)
SumOver(f, S) ==
    IF S = {} THEN 0
    ELSE LET x == CHOOSE y \in S : TRUE IN f[x] + SumOver(f, S \ {x})

requiredWeight == SumOver(weights, requiredItems)

Max(a, b) == IF a >= b THEN a ELSE b

\* The value of including item i that leaves the capacity as it is.
includeValueSameRoom(dp, i, w) == values[i] + dp[i - 1][w]

includeValue(dp, i, w) == values[i] + dp[i - 1][w - weights[i]]

\* dpTable[i][w] for an item that is not excluded.
Cell(dp, i, w) ==
    IF weights[i] > w THEN dp[i - 1][w]
    ELSE IF i \in requiredItems THEN includeValue(dp, i, w)
    ELSE Max(dp[i - 1][w], includeValue(dp, i, w))

\* The items backtrack() pushes, from item i down at capacity w.
RECURSIVE Pushed(_, _, _)
Pushed(dp, i, w) ==
    IF i = 0 THEN <<>>
    ELSE IF dp[i][w] # dp[i - 1][w]
    THEN <<i>> \o Pushed(dp, i - 1, w - weights[i])
    ELSE Pushed(dp, i - 1, w)

Reverse(s) == [k \in 1..Len(s) |-> s[Len(s) + 1 - k]]

\* "ERROR: Required items exceed capacity!": solve returns.
RequiredExceedCapacity ==
    /\ kpc = "solve"
    /\ requiredItems # {}
    /\ requiredWeight > capacity
    /\ kpc' = "rejected"
    /\ UNCHANGED <<branchAndBound, tsp, bigM, pathSolver, numItems, capacity, weights, values, excludedItems,
                   requiredItems, dpTable, selectedItems, row>>

\* dpTable.assign(n + 1, vector<double>(W + 1, 0))
InitTable ==
    /\ kpc = "solve"
    /\ ~(requiredItems # {} /\ requiredWeight > capacity)
    /\ dpTable' = [i \in 0..numItems |-> [w \in 0..capacity |-> 0]]
    /\ row' = 1
    /\ kpc' = "fill"
    /\ UNCHANGED <<branchAndBound, tsp, bigM, pathSolver, numItems, capacity, weights, values, excludedItems,
                   requiredItems, selectedItems>>

\* The pass of the fill loop for an excluded item: the row above is copied.
SkipExcluded ==
    /\ kpc = "fill"
    /\ row <= numItems
    /\ row \in excludedItems
    /\ dpTable' = [dpTable EXCEPT ![row] = dpTable[row - 1]]
    /\ row' = row + 1
    /\ UNCHANGED <<branchAndBound, tsp, bigM, pathSolver, numItems, capacity, weights, values, excludedItems,
                   requiredItems, selectedItems, kpc>>

\* The pass of the fill loop for any other item.
FillRow ==
    /\ kpc = "fill"
    /\ row <= numItems
    /\ row \notin excludedItems
    /\ dpTable' = [dpTable EXCEPT ![row] = [w \in 0..capacity |-> Cell(dpTable, row, w)]]
    /\ row' = row + 1
    /\ UNCHANGED <<branchAndBound, tsp, bigM, pathSolver, numItems, capacity, weights, values, excludedItems,
                   requiredItems, selectedItems, kpc>>

\* backtrack(), the reverse at its end included.
Backtrack ==
    /\ kpc = "fill"
    /\ row > numItems
    /\ selectedItems' = Reverse(Pushed(dpTable, numItems, capacity))
    /\ kpc' = "done"
    /\ UNCHANGED <<branchAndBound, tsp, bigM, pathSolver, numItems, capacity, weights, values, excludedItems,
                   requiredItems, dpTable, row>>

KnapsackNext ==
    \/ RequiredExceedCapacity
    \/ InitTable
    \/ SkipExcluded
    \/ FillRow
    \/ Backtrack

KnapsackSpec == KnapsackInit /\ [][KnapsackNext]_vars

\* ------------------------------------------------------------ properties

Is(p) ==
    /\ isMaximization = p.isMaximization
    /\ objective = p.objective
    /\ constraints = p.constraints
    /\ rhs = p.rhs
    /\ constraintTypes = p.constraintTypes
    /\ integerVars = p.integerVars

\* C1: on maximize 5x1 + 4x2, x1 + x2 <= 5, 10x1 + 6x2 <= 45, both integer,
\* solve terminates, and it ends with the incumbent x1 = 3, x2 = 2, Z = 23.
C1_PureILPOptimum ==
    /\ <>(Is(PureILP) => pc = "done")
    /\ [](Is(PureILP) /\ pc = "done"
            => bestSolution = Ints(<<3, 2>>) /\ bestObjValue = R(23))

C1_Witness ==
    /\ Is(PureILP)
    /\ pc = "done"
    /\ bestSolution = Ints(<<3, 2>>)
    /\ nodeCounter > 1

\* A step of the main loop that pushes two entries.
BranchStep == pc = "nodeSolved" /\ Len(queue') = Len(queue) + 2

\* The last rows of the two entries bound x_i on either side of v.
Partition(left, right, i, v) ==
    LET lo == left.extraRhs[Len(left.extraRhs)]
        hi == right.extraRhs[Len(right.extraRhs)]
    IN  /\ IsFractional(v)
        /\ left.extraCons[Len(left.extraCons)] = UnitRow(numVariables, i)
        /\ right.extraCons[Len(right.extraCons)] = UnitRow(numVariables, i)
        /\ left.extraTypes[Len(left.extraTypes)] = 1
        /\ right.extraTypes[Len(right.extraTypes)] = 2
        /\ lo[2] = 1 /\ hi[2] = 1
        /\ RLe(lo, v) /\ RLt(v, RAdd(lo, One))
        /\ RLt(RSub(hi, One), v) /\ RLe(v, hi)
        /\ hi[1] = lo[1] + 1
        /\ \A z \in (lo[1] - 3)..(hi[1] + 3) : (z <= lo[1]) # (z >= hi[1])

\* C10: a branch on x_i = v happens only for a fractional v, and pushes the
\* bounds x_i <= lo and x_i >= hi with lo <= v < lo + 1, hi - 1 < v <= hi and
\* hi = lo + 1, so that every integer satisfies exactly one of them.
C10_BranchCompleteness ==
    [][BranchStep =>
         \E i \in 1..numVariables :
            /\ \E k \in 1..Len(integerVars) : integerVars[k] = i
            /\ Partition(queue'[Len(queue') - 1], queue'[Len(queue')], i, solution[i])]_vars

C10_Witness ==
    /\ pc = "loop"
    /\ \E k \in 1..Len(queue), l \in 1..Len(queue) :
        /\ k < l
        /\ queue[k].parentId = queue[l].parentId
        /\ queue[k].depth > 1
        /\ queue[k].extraTypes[Len(queue[k].extraTypes)] = 1
        /\ queue[l].extraTypes[Len(queue[l].extraTypes)] = 2
        /\ queue[l].extraRhs[Len(queue[l].extraRhs)][1]
             = queue[k].extraRhs[Len(queue[k].extraRhs)][1] + 1

\* ---- feasibility of a point, stated from the problem and not from the tableau

\* coefficients . x (relation) right-hand side, within 1e-6
RowHolds(coefs, type, r, x) ==
    LET lhs == Dot(coefs, x, 1)
    IN  /\ type \in {1, 3} => ~GtTol(RSub(lhs, r))
        /\ type \in {2, 3} => ~GtTol(RSub(r, lhs))

Satisfies(cons, r, types, x) ==
    /\ \A i \in 1..Len(cons) : RowHolds(cons[i], types[i], r[i], x)
    /\ \A j \in 1..Len(x) : ~RLt(x[j], Zero)

Better(isMax, a, b) == IF isMax THEN RLt(b, a) ELSE RLt(a, b)

\* The integer points with coordinates 0..MaxPoint.
MaxPoint == 5
GridPoints == {Ints(x) : x \in [1..numVariables -> 0..MaxPoint]}

\* C2: whatever is recorded as the incumbent satisfies every original row and
\* x >= 0, and is integral on integerVars.
C2_IncumbentFeasible ==
    bestSolution # <<>> =>
        /\ Satisfies(constraints, rhs, constraintTypes, bestSolution)
        /\ \A k \in 1..Len(integerVars) : ~IsFractional(bestSolution[integerVars[k]])

\* The extra rows of a node, from the branch labels on its path from the root.
RECURSIVE NodeBounds(_, _)
NodeBounds(nodes, id) ==
    IF nodes[id].parentId = -1 THEN <<>>
    ELSE Append(NodeBounds(nodes, nodes[id].parentId), nodes[id].branchConstraint)

InSubproblem(nodes, id, x) ==
    /\ Satisfies(constraints, rhs, constraintTypes, x)
    /\ LET b == NodeBounds(nodes, id)
       IN  \A k \in 1..Len(b) :
              RowHolds(UnitRow(numVariables, b[k][1]), b[k][2], R(b[k][3]), x)

\* C3: when solve has returned, no PRUNED node's subproblem holds an integer
\* point with an objective strictly better than the final incumbent's.
C3_PruningSound ==
    pc = "done" =>
        \A id \in DOMAIN treeNodes :
            treeNodes[id].status = "PRUNED" =>
                \A x \in GridPoints :
                    InSubproblem(treeNodes, id, x) =>
                        ~Better(isMaximization, ObjectiveValue(objective, x), bestObjValue)

\* C4: on maximize x1, x1 >= 5, x1 <= 2, x1 >= 0 solve returns with the root
\* INFEASIBLE, no incumbent, no child and no queue entry.
C4_InfeasibleRoot ==
    Is(InfeasibleLP) /\ pc = "done" =>
        /\ treeNodes[0].status = "INFEASIBLE"
        /\ bestSolution = <<>>
        /\ DOMAIN treeNodes = {0}
        /\ queue = <<>>

\* C5: a root relaxation whose ratio test finds no row makes the solve report
\* UNBOUNDED, never INFEASIBLE.
C5_UnboundedReported ==
    pc = "done" /\ iteration = 0 /\ isUnbounded =>
        /\ treeNodes[0].status = "UNBOUNDED"
        /\ treeNodes[0].status # "INFEASIBLE"

\* C6: for MINIMIZE, a solution the solver returns is feasible and no feasible
\* point has a smaller objective.
C6_MinimizeOptimal ==
    ~isMaximization /\ pc \in {"rootSolved", "nodeSolved"} /\ solution # <<>> =>
        /\ Satisfies(AllCons(current), AllRhs(current), AllTypes(current), solution)
        /\ \A x \in GridPoints :
              Satisfies(AllCons(current), AllRhs(current), AllTypes(current), x)
                  => RLe(objValue, ObjectiveValue(objective, x))

\* A column of the artificial block is basic in a row whose rhs exceeds 1e-6.
ArtificialColumnBasic ==
    \E i \in 1..Len(basicVars) :
        /\ basicVars[i] >= FirstArtificialCol(numVariables, AllTypes(current))
        /\ GtTol(tableau[i][Len(tableau[i])])

\* C7: when the pivot loop has stopped, the solver reports infeasible exactly
\* when an artificial COLUMN is basic in a row whose rhs exceeds 1e-6.
C7_InfeasibleIffArtificial ==
    pc \in {"rootSolved", "nodeSolved"} /\ ~isUnbounded =>
        (isFeasible = FALSE <=> ArtificialColumnBasic)

\* C8: a pivot loop that ends at maxIterations with an improving column left
\* does not hand its basic solution back as the relaxation result.
C8_IterationLimitSurfaced ==
    pc \in {"rootSolved", "nodeSolved"} /\ iter >= maxIterations /\ pivotCol # 0
        => solution = <<>>

\* C9: a node's relaxation objective is never strictly better than its
\* parent's.
C9_RelaxationMonotone ==
    \A id \in DOMAIN treeNodes :
        treeNodes[id].parentId # -1 /\ treeNodes[id].solution # <<>> =>
            ~Better(isMaximization, treeNodes[id].objValue,
                    treeNodes[treeNodes[id].parentId].objValue)

\* ---- the relaxation as a function of the entry

\* The one element of a singleton.
The(S) == CHOOSE x \in S : TRUE

\* The pivot loop of SimplexSolver::solve run to its end from tableau t with
\* basis bv and k passes done.  The pivot column, the pivot row and the
\* pivoted tableau are bound as elements of singletons, which computes each of
\* them once.
RECURSIVE RunPivots(_, _, _, _)
RunPivots(t, bv, k, isMax) ==
    The({IF k >= maxIterations \/ c = 0
         THEN [tableau |-> t, basicVars |-> bv, unbounded |-> FALSE]
         ELSE The({IF r = 0
                   THEN [tableau |-> t, basicVars |-> bv, unbounded |-> TRUE]
                   ELSE The({RunPivots(nt, nb, nk, isMax) :
                                nt \in {performPivot(t, r, c)},
                                nb \in {[bv EXCEPT ![r] = c]},
                                nk \in {k + 1}}) :
                      r \in {findPivotRow(t, c)}}) :
            c \in {findPivotColumn(t, isMax)}})

\* solveSubproblem(extraCons, extraRhs, extraTypes, objValue): the pair of the
\* returned solution and objective.
solveSubproblem(item) ==
    The({The({IF run.unbounded
                    \/ ArtificialNamedBasic(run.tableau, t.varNames, run.basicVars)
              THEN <<<<>>, Zero>>
              ELSE The({<<sol, ObjectiveValue(objective, sol)>> :
                           sol \in {ExtractSolution(numVariables, run.tableau,
                                                    run.basicVars)}}) :
                 run \in {RunPivots(t.tableau, t.basicVars, 0, isMaximization)}}) :
            t \in {createInitialTableau(objective, AllCons(item), AllRhs(item),
                                        AllTypes(item), isMaximization)}})

\* C11: the outcome of a relaxation depends on the entry alone, whatever was
\* solved before it, and the root solved again in iteration 1 gives what the
\* root relaxation gave before the loop.
C11_RelaxationIdempotent ==
    /\ pc \in {"rootSolved", "nodeSolved"} => <<solution, objValue>> = solveSubproblem(current)
    /\ pc = "nodeSolved" /\ current.depth = 0 =>
          /\ solution = treeNodes[0].solution
          /\ objValue = treeNodes[0].objValue

C11_Witness ==
    /\ pc = "nodeSolved"
    /\ current.depth = 0
    /\ iteration = 1
    /\ solution # <<>>
    /\ solution = treeNodes[0].solution
    /\ \E j \in 1..Len(solution) : solution[j] # Zero

\* Every variable of integerVars is within 1e-6 of an integer in the solution
\* just returned.
Integral == solution # <<>> /\ \A k \in 1..Len(integerVars) : ~IsFractional(solution[integerVars[k]])

\* C12: when the root relaxation is integral on integerVars, solve records it
\* and its objective as the incumbent, marks the root INTEGER and returns
\* with a tree of the root alone: no child, no queue entry.
C12_IntegralityClosure ==
    [][pc = "rootSolved" /\ Integral =>
          /\ pc' = "done"
          /\ bestSolution' = solution
          /\ bestObjValue' = objValue
          /\ DOMAIN treeNodes' = {0}
          /\ treeNodes'[0].status = "INTEGER"
          /\ treeNodes'[0].leftChild = -1
          /\ treeNodes'[0].rightChild = -1
          /\ queue' = <<>>]_vars

C12_Witness ==
    /\ pc = "done"
    /\ iteration = 0
    /\ DOMAIN treeNodes = {0}
    /\ treeNodes[0].status = "INTEGER"
    /\ bestSolution = solution
    /\ bestSolution # <<>>
    /\ bestObjValue = objValue

Terminal == {"INFEASIBLE", "PRUNED", "INTEGER"}

\* C13: the iteration of a node taken from the queue ends with the node in
\* one of INFEASIBLE, PRUNED, INTEGER, BRANCHED; with one of the first three
\* the queue is left as it was and the node never has a child, with BRANCHED
\* exactly two entries, both children of the node, are pushed.
C13_NodeStateMachine ==
    /\ [][pc = "nodeSolved" =>
             LET st == treeNodes'[currentNodeId].status
             IN  /\ st \in Terminal \cup {"BRANCHED"}
                 /\ st \in Terminal => queue' = queue
                 /\ st = "BRANCHED" =>
                       /\ Len(queue') = Len(queue) + 2
                       /\ \A k \in 1..Len(queue) : queue'[k] = queue[k]
                       /\ queue'[Len(queue) + 1].parentId = currentNodeId
                       /\ queue'[Len(queue) + 2].parentId = currentNodeId]_vars
    /\ [](\A id \in DOMAIN treeNodes :
            treeNodes[id].status \in Terminal =>
                /\ treeNodes[id].leftChild = -1
                /\ treeNodes[id].rightChild = -1
                /\ \A c \in DOMAIN treeNodes : treeNodes[c].parentId # id
                /\ \A k \in 1..Len(queue) : queue[k].parentId # id)

C13_Witness ==
    /\ pc = "done"
    /\ \A st \in Terminal \cup {"BRANCHED"} :
          \E id \in DOMAIN treeNodes : id > 0 /\ treeNodes[id].status = st

\* C14: a node whose relaxation is handed to the solver inside the loop has
\* no record in the tree yet: no node is solved, or given a status, twice.
C14_SolvedOnce ==
    pc \in {"nodeSimplex", "nodeSolved"} => currentNodeId \notin DOMAIN treeNodes

\* C15: inside the main loop the incumbent changes only in an iteration whose
\* relaxation is integral on integerVars and strictly better than
\* bestObjValue, and it becomes that relaxation: bestObjValue only improves.
C15_IncumbentMonotone ==
    [][pc # "rootSolved" /\ (bestObjValue' # bestObjValue \/ bestSolution' # bestSolution) =>
          /\ pc = "nodeSolved"
          /\ Integral
          /\ Better(isMaximization, objValue, bestObjValue)
          /\ bestSolution' = solution
          /\ bestObjValue' = objValue
          /\ Better(isMaximization, bestObjValue', bestObjValue)]_vars

\* The incumbent was found in the loop, after another one it improved on.
C15_Witness ==
    /\ pc = "loop"
    /\ bestSolution # <<>>
    /\ bestSolution = solution
    /\ bestObjValue = objValue
    /\ \E id \in DOMAIN treeNodes :
          /\ id > 0
          /\ treeNodes[id].status = "INTEGER"
          /\ treeNodes[id].objValue = bestObjValue
    /\ \E id \in DOMAIN treeNodes :
          /\ id > 0
          /\ treeNodes[id].status = "INTEGER"
          /\ Better(isMaximization, bestObjValue, treeNodes[id].objValue)

\* C16: when the queue has run empty, an INTEGER node exists exactly when the
\* result is an incumbent, and that incumbent is an optimal integer solution:
\* feasible, integral on integerVars, and no integer point is better.
C16_FinalResult ==
    pc = "done" /\ iteration > 0 =>
        /\ (\E id \in DOMAIN treeNodes : treeNodes[id].status = "INTEGER")
               <=> bestSolution # <<>>
        /\ bestSolution # <<>> =>
              /\ Satisfies(constraints, rhs, constraintTypes, bestSolution)
              /\ \A k \in 1..Len(integerVars) : ~IsFractional(bestSolution[integerVars[k]])
              /\ \A x \in GridPoints :
                    Satisfies(constraints, rhs, constraintTypes, x) =>
                        ~Better(isMaximization, ObjectiveValue(objective, x), bestObjValue)

\* C17: the rows of a tableau just built all have a right-hand side >= 0.
C17_NonNegativeRhs ==
    Solving /\ iter = 0 =>
        \A i \in 1..(Len(tableau) - 1) : ~RLt(tableau[i][Len(tableau[i])], Zero)

\* C18: on maximize 18x1 + 14x2 + 8x3 + 4x4, 15x1 + 12x2 + 7x3 + 4x4 <= 37,
\* x_i <= 1, all integer, solve terminates, and it ends with the incumbent
\* (1, 1, 1, 0), Z = 40.
C18_BinaryILPOptimum ==
    /\ <>(Is(BinaryILP) => pc = "done")
    /\ [](Is(BinaryILP) /\ pc = "done"
            => bestSolution = Ints(<<1, 1, 1, 0>>) /\ bestObjValue = R(40))

C18_Witness ==
    /\ Is(BinaryILP)
    /\ pc = "done"
    /\ bestSolution = Ints(<<1, 1, 1, 0>>)
    /\ bestObjValue = R(40)
    /\ nodeCounter > 1
    /\ queue = <<>>

\* ---- knapsack: subsets of the items

Selected == {selectedItems[k] : k \in 1..Len(selectedItems)}
Weight(S) == SumOver(weights, S)
Value(S) == SumOver(values, S)
Allowed == {S \in SUBSET ((1..numItems) \ excludedItems) : Weight(S) <= capacity}

\* C19: when the required items fit together, each of them is in
\* selectedItems after solve and backtrack.
C19_RequiredSelected ==
    kpc = "done" /\ requiredWeight <= capacity => requiredItems \subseteq Selected

\* C20: with no required item, dp[n][W] is the greatest value of a subset of
\* the non-excluded items that weighs at most W, and selectedItems is such a
\* subset, without repetition, of value exactly dp[n][W].
C20_KnapsackOptimal ==
    kpc = "done" /\ requiredItems = {} =>
        /\ \A S \in Allowed : Value(S) <= dpTable[numItems][capacity]
        /\ \E S \in Allowed : Value(S) = dpTable[numItems][capacity]
        /\ Len(selectedItems) = Cardinality(Selected)
        /\ Selected \in Allowed
        /\ Value(Selected) = dpTable[numItems][capacity]

C20_Witness ==
    /\ kpc = "done"
    /\ requiredItems = {}
    /\ excludedItems = {}
    /\ Selected # {}
    /\ Weight(Selected) = capacity
    /\ \E i \in 1..numItems :
          /\ i \notin Selected
          /\ values[i] > 0
          /\ weights[i] <= capacity
    /\ Value(Selected) = dpTable[numItems][capacity]

\* A step of the main loop that removes an entry from the frontier.
SelectStep == pc = "loop" /\ iteration' = iteration + 1

\* Entry k has a bound at least as good as every entry of the frontier.
BestBound(q, k) ==
    \A l \in 1..Len(q) :
        IF isMaximization THEN RLe(q[l].bound, q[k].bound)
                          ELSE RLe(q[k].bound, q[l].bound)

\* C22: the entry removed at an iteration has a bound at least as good as
\* that of every other frontier entry, and among the entries that share the
\* best bound it is the one created first (the one nearest the front of the
\* queue, children being appended left before right).
C22_BestFirstDeterministic ==
    [][SelectStep =>
         \E k \in 1..Len(queue) :
            /\ BestBound(queue, k)
            /\ \A l \in 1..(k - 1) : ~BestBound(queue, l)
            /\ current' = queue[k]
            /\ queue' = RemoveAt(queue, k)]_vars

\* The part of C22 that the sort does guarantee: the removed entry has a
\* best bound.
C22_BestBoundOnly ==
    [][SelectStep =>
         \E k \in 1..Len(queue) :
            /\ BestBound(queue, k)
            /\ current' = queue[k]]_vars

\* The integer-constrained variables that are fractional in the solution of
\* the entry just solved.
FractionalIntegerVars ==
    {integerVars[k] : k \in {l \in 1..Len(integerVars) :
                                IsFractional(solution[integerVars[l]])}}

\* C23: a branch is made on the fractional integer-constrained variable of
\* lowest index, whatever the order of integerVars.
C23_LowestIndexBranched ==
    [][BranchStep =>
         LET i == queue'[Len(queue')].branchInfo[1]
         IN  /\ i \in FractionalIntegerVars
             /\ \A j \in FractionalIntegerVars : i <= j]_vars

\* The part of C23 the code does guarantee: the variable branched on is the
\* first fractional entry of integerVars in list order.
C23_FirstInListBranched ==
    [][BranchStep =>
         \E k \in 1..Len(integerVars) :
            /\ queue'[Len(queue')].branchInfo[1] = integerVars[k]
            /\ IsFractional(solution[integerVars[k]])
            /\ \A l \in 1..(k - 1) : ~IsFractional(solution[integerVars[l]])]_vars

\* The three lists of an entry have the length of its depth.
ListsMatchDepth(e) ==
    /\ Len(e.extraCons) = e.depth
    /\ Len(e.extraRhs) = e.depth
    /\ Len(e.extraTypes) = e.depth

\* Entry child carries the lists of entry parent followed by one bound of the
\* given type and value on x_i.
Inherits(child, parent, i, type, value) ==
    /\ child.extraCons = parent.extraCons \o <<UnitRow(numVariables, i)>>
    /\ child.extraRhs = parent.extraRhs \o <<R(value)>>
    /\ child.extraTypes = parent.extraTypes \o <<type>>
    /\ child.depth = parent.depth + 1

\* C24: the lists of every frontier entry, and of the entry being solved,
\* have equal length, the entry's depth; a branch appends to the frontier
\* two entries that carry the parent's lists followed by x_i <= floor(v) and
\* x_i >= ceil(v), and leaves the parent and the older entries as they were;
\* no step changes the root problem, a step that is not a selection leaves
\* the entry being solved as it was, a selection only removes an entry, and
\* solving an entry leaves the frontier as it was.
C24_InheritedBounds ==
    /\ [](ListsMatchDepth(current) /\ \A k \in 1..Len(queue) : ListsMatchDepth(queue[k]))
    /\ [][problem' = problem]_vars
    /\ [][~SelectStep => current' = current]_vars
    /\ [][SelectStep => \A k \in 1..Len(queue') : \E l \in 1..Len(queue) : queue'[k] = queue[l]]_vars
    /\ [][(Solving \/ pc = "nodeSolved") /\ ~BranchStep => queue' = queue]_vars
    /\ [][BranchStep =>
            \E i \in 1..numVariables :
                LET left == queue'[Len(queue') - 1]
                    right == queue'[Len(queue')]
                IN  /\ Inherits(left, current, i, 1, RFloor(solution[i]))
                    /\ Inherits(right, current, i, 2, RCeil(solution[i]))
                    /\ \A k \in 1..Len(queue) : queue'[k] = queue[k]]_vars

\* Two siblings of depth 2 wait in the frontier, each with its parent's bound
\* first and its own bound second.
C24_Witness ==
    /\ pc = "loop"
    /\ \E k \in 1..Len(queue), l \in 1..Len(queue) :
        /\ k < l
        /\ queue[k].depth = 2
        /\ queue[l].depth = 2
        /\ queue[k].parentId = queue[l].parentId
        /\ queue[k].extraCons[1] = queue[l].extraCons[1]
        /\ queue[k].extraRhs[1] = queue[l].extraRhs[1]
        /\ queue[k].extraTypes = <<queue[k].extraTypes[1], 1>>
        /\ queue[l].extraTypes = <<queue[l].extraTypes[1], 2>>

\* The solver holds the tableau createInitialTableau built for the entry
\* being solved: no pivot has been made yet.
InitialTableau == Solving /\ iter = 0

\* The number of rows of type t among the rows of the entry being solved.
CountType(t) == Cardinality({i \in 1..Len(AllTypes(current)) : AllTypes(current)[i] = t})

\* The auxiliary columns: those after the decision variables and before the
\* right-hand side.
AuxCols == (numVariables + 1)..(Len(tableau[1]) - 1)

\* Row i is zero in the auxiliary columns except for the entries given by f.
AuxEntries(i, f) ==
    \A j \in AuxCols :
        tableau[i][j] = (IF j \in DOMAIN f THEN R(f[j]) ELSE Zero)

\* C25: the initial tableau of m constraints on n variables has m + 1 rows of
\* n + #LE + 2 #GE + #EQ + 1 columns; a <= row holds +1 in one slack column,
\* a >= row -1 in one surplus column and +1 in one artificial column, an =
\* row +1 in one artificial column, and 0 in the other auxiliary columns; no
\* auxiliary column is non-zero in two constraint rows; the basic variable of
\* a row is its slack or its artificial column; and the objective row is 0 in
\* every basic column.
C25_Standardization ==
    InitialTableau =>
        LET types == AllTypes(current)
            m == Len(types)
            numCols == numVariables + CountType(1) + 2 * CountType(2) + CountType(3) + 1
        IN  /\ Len(tableau) = m + 1
            /\ \A i \in 1..(m + 1) : Len(tableau[i]) = numCols
            /\ Len(basicVars) = m
            /\ \A i \in 1..m :
                /\ basicVars[i] \in AuxCols
                /\ tableau[i][basicVars[i]] = One
                /\ tableau[m + 1][basicVars[i]] = Zero
                /\ IF types[i] = 2
                   THEN \E e \in AuxCols \ {basicVars[i]} :
                            AuxEntries(i, (e :> -1) @@ (basicVars[i] :> 1))
                   ELSE AuxEntries(i, (basicVars[i] :> 1))
            /\ \A j \in AuxCols :
                Cardinality({i \in 1..m : tableau[i][j] # Zero}) <= 1

\* An initial tableau with a row of each type, two of them with artificial
\* columns.
C25_Witness ==
    /\ InitialTableau
    /\ pc = "nodeSimplex"
    /\ \A t \in 1..3 : CountType(t) >= 1
    /\ tableau[Len(tableau)][Len(tableau[1])] # Zero

\* A pass of the pivot loop that has found an improving column.
RatioTest == Solving /\ iter < maxIterations /\ pivotCol # 0

\* The constraint rows whose entry in the pivot column exceeds the epsilon,
\* and the ratio of such a row.
Eligible == {i \in 1..(Len(tableau) - 1) : GtEps(tableau[i][pivotCol])}
Ratio(i) == RDiv(tableau[i][Len(tableau[i])], tableau[i][pivotCol])

\* C26: the row findPivotRow returns is an eligible row of smallest ratio,
\* and the lowest such row; the pass then pivots on it.  With no eligible
\* row the pass sets isUnbounded and returns the empty solution, and the
\* tableau and the basis stay as they were.
C26_RatioTest ==
    /\ [](RatioTest /\ Eligible # {} =>
            /\ pivotRow \in Eligible
            /\ \A k \in Eligible :
                /\ RLe(Ratio(pivotRow), Ratio(k))
                /\ RLe(Ratio(k), Ratio(pivotRow)) => pivotRow <= k)
    /\ [][RatioTest /\ Eligible # {} =>
            /\ basicVars' = [basicVars EXCEPT ![pivotRow] = pivotCol]
            /\ iter' = iter + 1
            /\ ~isUnbounded']_vars
    /\ [][RatioTest /\ Eligible = {} =>
            /\ isUnbounded'
            /\ solution' = <<>>
            /\ tableau' = tableau
            /\ basicVars' = basicVars
            /\ iter' = iter
            /\ pc' = Solved]_vars

\* Two eligible rows tie for the smallest ratio and the lower one is chosen.
C26_Witness ==
    /\ RatioTest
    /\ \E k \in Eligible :
        /\ k > pivotRow
        /\ Ratio(k) = Ratio(pivotRow)
        /\ pivotRow \in Eligible

\* A ratio test that found no eligible row has ended the solve.
C26_WitnessUnbounded ==
    /\ isUnbounded
    /\ solution = <<>>
    /\ pc \in {"rootSolved", "nodeSolved"}

\* Every right-hand side handed to the solver for the entry being solved is
\* non-negative.
InitialRhsNonNegative ==
    \A i \in 1..Len(AllRhs(current)) : RLe(Zero, AllRhs(current)[i])

\* Column j of the tableau is the unit column of constraint row r.
UnitColumn(j, r) ==
    \A i \in 1..Len(tableau) : tableau[i][j] = (IF i = r THEN One ELSE Zero)

\* C27: when the solver started from non-negative right-hand sides, then
\* after any number of pivots every constraint row's right-hand side is
\* non-negative, the basic variables are pairwise distinct, and the column
\* of each row's basic variable is the unit column of that row, with 0 in
\* the objective row.
C27_TableauInvariant ==
    (Solving \/ pc \in {"rootSolved", "nodeSolved"}) /\ InitialRhsNonNegative =>
        /\ \A r \in 1..(Len(tableau) - 1) : RLe(Zero, tableau[r][Len(tableau[r])])
        /\ \A r, q \in 1..Len(basicVars) : basicVars[r] = basicVars[q] => r = q
        /\ \A r \in 1..Len(basicVars) : UnitColumn(basicVars[r], r)

\* Three pivots have been made from non-negative right-hand sides, one of
\* them on a row that started with an artificial basic variable.
C27_Witness ==
    /\ Solving
    /\ InitialRhsNonNegative
    /\ iter >= 3
    /\ \E r \in 1..Len(basicVars) :
        /\ AllTypes(current)[r] \in {2, 3}
        /\ basicVars[r] <= numVariables

\* ------------------------------------------- the search in creation order

\* maximize x1 + x2, 2x1 + 2x2 <= 3, both integer
TwoVarILP ==
    Problem(TRUE, Ints(<<1, 1>>), <<Ints(<<2, 2>>)>>, Ints(<<3>>), <<1>>, <<1, 2>>)

CreationOrderInit ==
    /\ \E p \in Problems \cup {TwoVarILP} :
        /\ isMaximization = p.isMaximization
        /\ objective = p.objective
        /\ constraints = p.constraints
        /\ rhs = p.rhs
        /\ constraintTypes = p.constraintTypes
        /\ integerVars = p.integerVars
    /\ bestSolution = <<>>
    /\ bestObjValue = Zero
    /\ iteration = 0
    /\ treeNodes = <<>>
    /\ optimalPath = <<>>
    /\ queue = <<>>
    /\ nodeCounter = 0
    /\ current = NewQueueItem
    /\ solution = <<>>
    /\ objValue = Zero
    /\ pc = "start"
    /\ tableau = <<>>
    /\ varNames = <<>>
    /\ basicVars = <<>>
    /\ iter = 0
    /\ isFeasible = TRUE
    /\ isUnbounded = FALSE
    /\ KnapsackIdle
    /\ TSPIdle
    /\ BigMIdle
    /\ PathSolverIdle

\* The selection as the sort of this build performs it on a short frontier:
\* a range this short is sorted by insertion, which keeps entries of equal
\* bound in the order they were pushed, so the first entry with the best
\* bound comes out.  Every step of it is a step of Select.
SelectCreated ==
    /\ Select
    /\ \E k \in 1..Len(queue) :
        /\ BestBound(queue, k)
        /\ \A l \in 1..(k - 1) : ~BestBound(queue, l)
        /\ current' = queue[k]
        /\ queue' = RemoveAt(queue, k)

CreationOrderNext ==
    \/ SolveRoot
    \/ Pivot
    \/ Unbounded
    \/ Infeasible
    \/ Extract
    \/ RootInfeasible
    \/ RootInteger
    \/ RootBranched
    \/ SelectCreated
    \/ Finish
    \/ NodeInfeasible
    \/ NodePruned
    \/ NodeInteger
    \/ NodeBranch

CreationOrderSpec == CreationOrderInit /\ [][CreationOrderNext]_vars

\* The LP relaxation of the root problem has a non-empty bounded feasible
\* region: some point of the grid satisfies every row, and some <= row has a
\* positive coefficient on every variable.
BoundedNonEmptyRelaxation ==
    /\ \E x \in GridPoints : Satisfies(constraints, rhs, constraintTypes, x)
    /\ \E i \in 1..numConstraints :
        /\ constraintTypes[i] = 1
        /\ \A j \in 1..numVariables : RLt(Zero, constraints[i][j])

\* C28: on maximize x1 + x2, 2x1 + 2x2 <= 3, both integer, whose relaxation
\* is non-empty and bounded, the search ends after the subproblems of its
\* tree are solved.  With every subproblem solved correctly the tree has
\* eight nodes below the root: x1 <= 1 and x1 >= 2; under x1 <= 1, x2 <= 0
\* and x2 >= 1; under x2 >= 1, x1 <= 0 and x1 >= 1; under x1 <= 0, x2 <= 1
\* and x2 >= 2.
C28_SearchTerminates ==
    Is(TwoVarILP) /\ BoundedNonEmptyRelaxation => nodeCounter <= 8

\* The same search run into the node bound of the model with entries still
\* waiting.
C28_NodeBoundReached ==
    Is(TwoVarILP) => ~(pc = "loop" /\ queue # <<>> /\ nodeCounter >= MaxNodes)

\* ------------------------------------------------------------ TSPSolver
\* The branch and bound of the travelling salesman problem in
\* src/Knapsack.cpp.  Cities are numbered from 1 (a C++ city k is k + 1);
\* node ids keep the source's numbering from 0 and -1 for "no parent".
\* Distances are whole numbers.

\* INF_VAL stands for the literal 1e30: it lies above every sum of distances
\* the model can form.
INF_VAL == 1000000000

\* Bound of the generated inputs: the greater of the two distances entered.
MaxDist == 2

\* inputMatrix asks for every entry off the diagonal; an entry typed as 0
\* means no connection and is stored as INF_VAL, as is the diagonal.
OffDiagonal(n) == {p \in (1..n) \X (1..n) : p[1] # p[2]}

DistanceMatrix(n, typed) ==
    [i \in 1..n |-> [j \in 1..n |->
        IF i = j \/ typed[<<i, j>>] = 0 THEN INF_VAL ELSE typed[<<i, j>>]]]

\* The 4 cities of the README: A-B 10, A-C 15, A-D 20, B-C 35, B-D 25,
\* C-D 30, started at A.
TSPExample ==
    LET table == << <<0, 10, 15, 20>>, <<10, 0, 35, 25>>,
                    <<15, 35, 0, 30>>, <<20, 25, 30, 0>> >>
    IN  [numCities |-> 4,
         distanceMatrix |-> DistanceMatrix(4, [p \in OffDiagonal(4) |-> table[p[1]][p[2]]]),
         startCity |-> 1]

\* Every matrix on 2 or 3 cities whose entries are no connection, the
\* distance 1 or the distance MaxDist, symmetric or not, and every starting
\* city.
TSPFamily ==
    UNION {{[numCities |-> n, distanceMatrix |-> DistanceMatrix(n, typed), startCity |-> s] :
              typed \in [OffDiagonal(n) -> {0, 1, MaxDist}], s \in 1..n} : n \in {2, 3}}

TSPInputs == {TSPExample} \cup TSPFamily

\* TSPNode(id, p, c, b, lvl, parent)
TSPNode(id, p, c, b, lvl, parent) ==
    [nodeId |-> id, path |-> p, cost |-> c, bound |-> b, level |-> lvl,
     parentId |-> parent, children |-> <<>>, status |-> "", isOptimal |-> FALSE]

\* TSPSolver() followed by getUserInput: main then calls solve().
TSPInit ==
    /\ BranchAndBoundIdle
    /\ KnapsackIdle
    /\ BigMIdle
    /\ PathSolverIdle
    /\ \E inp \in TSPInputs :
        tsp = [numCities |-> inp.numCities, distanceMatrix |-> inp.distanceMatrix,
               startCity |-> inp.startCity, bestTour |-> <<>>, bestCost |-> INF_VAL,
               nodes |-> <<>>, nodeCounter |-> 0, rootId |-> 0,
               optimalPathIds |-> <<>>, pq |-> {}, pc |-> "solve"]

CitiesOf(path) == {path[k] : k \in 1..Len(path)}

\* A loop "for j: if allowed(j) and d[i][j] < best then best = d[i][j]".
RECURSIVE MinDistance(_, _, _, _, _)
MinDistance(d, i, allowed, j, best) ==
    IF j > Len(d) THEN best
    ELSE MinDistance(d, i, allowed, j + 1,
                     IF j \in allowed /\ d[i][j] < best THEN d[i][j] ELSE best)

\* A bound that charges a quarter of INF_VAL for each unvisited city, whatever
\* the distances: it lies above the cost of the tours below the node.
RECURSIVE UnvisitedPenalty(_, _, _, _)
UnvisitedPenalty(d, visited, start, i) ==
    IF i > Len(d) THEN 0
    ELSE (IF i \notin visited THEN INF_VAL \div 4 ELSE 0)
         + UnvisitedPenalty(d, visited, start, i + 1)

\* The second loop of calculateLowerBound, from city i on: for each unvisited
\* city the least distance to a city that is unvisited or the start.
RECURSIVE UnvisitedMinima(_, _, _, _)
UnvisitedMinima(d, visited, start, i) ==
    IF i > Len(d) THEN 0
    ELSE (IF i \notin visited
          THEN LET minOut == MinDistance(d, i,
                                 {j \in 1..Len(d) : j # i /\ (j \notin visited \/ j = start)},
                                 1, INF_VAL)
               IN  IF minOut < INF_VAL - 1 THEN minOut ELSE 0
          ELSE 0)
         + UnvisitedMinima(d, visited, start, i + 1)

calculateLowerBound(d, start, path, currentCost) ==
    LET n == Len(d)
        visited == CitiesOf(path)
        lastCity == path[Len(path)]
        minEdge == MinDistance(d, lastCity,
                       {j \in 1..n : j \notin visited
                                     \/ (Cardinality(visited) = n - 1 /\ j = start)},
                       1, INF_VAL)
    IN  currentCost
        + (IF path # <<>> /\ Cardinality(visited) < n /\ minEdge < INF_VAL - 1
           THEN minEdge ELSE 0)
        + UnvisitedMinima(d, visited, start, 1)

\* STEP: the root node [startCity] is created and pushed.
TSPRoot ==
    /\ tsp.pc = "solve"
    /\ LET rootBound == calculateLowerBound(tsp.distanceMatrix, tsp.startCity,
                                            <<tsp.startCity>>, 0)
           root == [TSPNode(tsp.nodeCounter, <<tsp.startCity>>, 0, rootBound, 0, -1)
                      EXCEPT !.status = "ROOT"]
       IN  tsp' = [tsp EXCEPT !.rootId = tsp.nodeCounter,
                              !.nodeCounter = tsp.nodeCounter + 1,
                              !.nodes = (root.nodeId :> root),
                              !.pq = {<<rootBound, root.nodeId>>},
                              !.pc = "loop"]
    /\ UNCHANGED <<branchAndBound, knapsack, bigM, pathSolver>>

\* pq.top(): an entry no other entry beats.  The comparison looks at the
\* bound alone, so among entries of equal bound the one on top is whichever
\* the heap holds there.
IsTop(top) == top \in tsp.pq /\ \A e \in tsp.pq : top[1] <= e[1]

\* An entry whose bound is not below bestCost is dropped.
TSPSkip ==
    /\ tsp.pc = "loop"
    /\ \E top \in tsp.pq :
        /\ IsTop(top)
        /\ top[1] >= tsp.bestCost
        /\ tsp' = [tsp EXCEPT !.pq = tsp.pq \ {top},
                              !.nodes[top[2]].status = "PRUNED"]
    /\ UNCHANGED <<branchAndBound, knapsack, bigM, pathSolver>>

\* The path from the root to node id, through parentId.
RECURSIVE TSPTrace(_, _)
TSPTrace(nodes, id) ==
    IF id = -1 THEN <<>> ELSE Append(TSPTrace(nodes, nodes[id].parentId), id)

\* A path through all the cities: the return to the start closes the tour.
TSPTour ==
    /\ tsp.pc = "loop"
    /\ \E top \in tsp.pq :
        /\ IsTop(top)
        /\ top[1] < tsp.bestCost
        /\ LET node == tsp.nodes[top[2]]
               returnCost == tsp.distanceMatrix[node.path[Len(node.path)]][tsp.startCity]
               totalCost == node.cost + returnCost
           IN  /\ Len(node.path) = tsp.numCities
               /\ tsp' = IF returnCost < INF_VAL - 1
                         THEN IF totalCost < tsp.bestCost
                              THEN [tsp EXCEPT !.pq = tsp.pq \ {top},
                                               !.bestCost = totalCost,
                                               !.bestTour = Append(node.path, tsp.startCity),
                                               !.nodes[top[2]].status = "SOLUTION",
                                               !.optimalPathIds = TSPTrace(tsp.nodes, top[2])]
                              ELSE [tsp EXCEPT !.pq = tsp.pq \ {top},
                                               !.nodes[top[2]].status = "PRUNED"]
                         ELSE [tsp EXCEPT !.pq = tsp.pq \ {top},
                                          !.nodes[top[2]].status = "NO_RETURN"]
    /\ UNCHANGED <<branchAndBound, knapsack, bigM, pathSolver>>

\* The cities the branching loop reaches from the path, in ascending order.
RECURSIVE NextCities(_, _, _, _)
NextCities(d, visited, lastCity, nextCity) ==
    IF nextCity > Len(d) THEN <<>>
    ELSE (IF nextCity \in visited \/ d[lastCity][nextCity] >= INF_VAL - 1
          THEN <<>> ELSE <<nextCity>>)
         \o NextCities(d, visited, lastCity, nextCity + 1)

\* A shorter path is branched: one child per reachable unvisited city, pushed
\* unless its bound is not below bestCost.
TSPBranch ==
    /\ tsp.pc = "loop"
    /\ \E top \in tsp.pq :
        /\ IsTop(top)
        /\ top[1] < tsp.bestCost
        /\ LET node == tsp.nodes[top[2]]
               lastCity == node.path[Len(node.path)]
               next == NextCities(tsp.distanceMatrix, CitiesOf(node.path), lastCity, 1)
               child(k) ==
                   LET newPath == Append(node.path, next[k])
                       newCost == node.cost + tsp.distanceMatrix[lastCity][next[k]]
                       newBound == calculateLowerBound(tsp.distanceMatrix, tsp.startCity,
                                                       newPath, newCost)
                   IN  [TSPNode(tsp.nodeCounter + k - 1, newPath, newCost, newBound,
                                node.level + 1, top[2])
                          EXCEPT !.status = IF newBound >= tsp.bestCost
                                            THEN "PRUNED" ELSE "ACTIVE"]
               children == [k \in 1..Len(next) |-> child(k)]
               parent == [node EXCEPT !.status = "BRANCHED",
                                         !.children = [k \in 1..Len(next) |-> children[k].nodeId]]
           IN  /\ Len(node.path) # tsp.numCities
               /\ tsp' = [tsp EXCEPT
                            !.pq = (tsp.pq \ {top})
                                   \cup {<<children[k].bound, children[k].nodeId>> :
                                           k \in {l \in 1..Len(next) : children[l].status = "ACTIVE"}},
                            !.nodeCounter = tsp.nodeCounter + Len(next),
                            !.nodes = [id \in (DOMAIN tsp.nodes) \cup
                                              {children[k].nodeId : k \in 1..Len(next)} |->
                                          IF id = top[2] THEN parent
                                          ELSE IF id \in DOMAIN tsp.nodes THEN tsp.nodes[id]
                                          ELSE children[id - tsp.nodeCounter + 1]]]
    /\ UNCHANGED <<branchAndBound, knapsack, bigM, pathSolver>>

\* The queue is empty: the nodes of the best tour are marked and the
\* solution is displayed.
TSPFinish ==
    /\ tsp.pc = "loop"
    /\ tsp.pq = {}
    /\ tsp' = [tsp EXCEPT
                 !.nodes = [id \in DOMAIN tsp.nodes |->
                              IF \E k \in 1..Len(tsp.optimalPathIds) : tsp.optimalPathIds[k] = id
                              THEN [tsp.nodes[id] EXCEPT !.isOptimal = TRUE]
                              ELSE tsp.nodes[id]],
                 !.pc = "done"]
    /\ UNCHANGED <<branchAndBound, knapsack, bigM, pathSolver>>

TSPNext ==
    \/ TSPRoot
    \/ TSPSkip
    \/ TSPTour
    \/ TSPBranch
    \/ TSPFinish

TSPSpec == TSPInit /\ [][TSPNext]_vars

\* solve() has returned.
TSPHalted == tsp.pc = "done"

\* solve() is sequential, so a step that is possible is taken: weak fairness
\* of TSPNext, written out with TSPHalted as the states that enable no step.
TSPFairSpec == TSPSpec /\ ([]<>TSPHalted \/ []<><<TSPNext>>_vars)

\* ----------------------------------------------------- TSP properties

\* The Hamiltonian cycles through the start city: the sequences of
\* numCities + 1 cities that start and end at startCity, hold every city once
\* before the return, and follow connections only.
Tours ==
    LET n == tsp.numCities
    IN  {t \in [1..(n + 1) -> 1..n] :
            /\ t[1] = tsp.startCity
            /\ t[n + 1] = tsp.startCity
            /\ \A c \in 1..n : \E k \in 1..n : t[k] = c
            /\ \A k \in 1..n : tsp.distanceMatrix[t[k]][t[k + 1]] < INF_VAL - 1}

RECURSIVE TourCostFrom(_, _)
TourCostFrom(t, k) ==
    IF k >= Len(t) THEN 0
    ELSE tsp.distanceMatrix[t[k]][t[k + 1]] + TourCostFrom(t, k + 1)

TourCost(t) == TourCostFrom(t, 1)

\* C21: solve terminates; when a Hamiltonian cycle through the start city
\* exists, bestTour is such a cycle, bestCost is its total distance, and no
\* such cycle is shorter; on the 4 cities of the README bestCost is 80.
C21_TSPOptimal ==
    /\ [](~TSPHalted => ENABLED TSPNext)
    /\ <>(tsp.pc = "done")
    /\ [](tsp.pc = "done" /\ Tours # {} =>
            /\ tsp.bestTour \in Tours
            /\ tsp.bestCost = TourCost(tsp.bestTour)
            /\ \A t \in Tours : tsp.bestCost <= TourCost(t))
    /\ [](tsp.pc = "done" /\ tsp.numCities = TSPExample.numCities
            /\ tsp.distanceMatrix = TSPExample.distanceMatrix
            /\ tsp.startCity = TSPExample.startCity
          => tsp.bestCost = 80 /\ tsp.bestTour \in {<<1, 2, 4, 3, 1>>, <<1, 3, 4, 2, 1>>})

\* The search of the 4 cities of the README has ended with cost 80, after
\* dropping a node on its bound and passing over a longer tour.
C21_Witness ==
    /\ tsp.pc = "done"
    /\ tsp.numCities = 4
    /\ tsp.bestCost = 80
    /\ \E t \in Tours : TourCost(t) > 80
    /\ \E id \in DOMAIN tsp.nodes : tsp.nodes[id].status = "PRUNED"

\* A search on 3 cities with an asymmetric matrix has ended with the shorter
\* of the two directions.
C21_WitnessAsymmetric ==
    /\ tsp.pc = "done"
    /\ tsp.numCities = 3
    /\ \E t \in Tours : TourCost(t) > tsp.bestCost
    /\ tsp.bestTour \in Tours

\* ------------------------------------------------------------ BigMMethod
\* The Big-M simplex solver of src/unnamed/part_001.  Columns and rows are
\* numbered from 1 and "no column" / "no row" is 0 where the source has -1.

\* int maxIterations = 50 in BigMMethod::solve.
BigMMaxIterations == 50

\* The value of M when the line typed for it is empty.
BigMDefaultM == 1000

\* maximize x1 + ... + xn subject to xi <= 1 for each i: the pivot rules
\* bring one variable into the basis per pass, so the tableau is optimal
\* after exactly n pivots.
BoxLP(n) ==
    [isMaximization |-> TRUE,
     objective |-> [j \in 1..n |-> One],
     constraints |-> [i \in 1..n |-> [j \in 1..n |-> IF i = j THEN One ELSE Zero]],
     rhs |-> [i \in 1..n |-> One],
     constraintTypes |-> [i \in 1..n |-> 1]]

\* The problems typed: the linear programs of the branch and bound inputs,
\* and boxes whose pivot counts lie on both sides of the cap.
BigMTyped ==
    {[isMaximization |-> p.isMaximization, objective |-> p.objective,
      constraints |-> p.constraints, rhs |-> p.rhs,
      constraintTypes |-> p.constraintTypes] : p \in Problems}
    \cup {BoxLP(n) : n \in {1, BigMMaxIterations - 2, BigMMaxIterations - 1,
                            BigMMaxIterations}}

\* getUserInput: a row typed with a negative right-hand side is multiplied
\* by -1, and <= and >= change places.
BigMNormalized(p) ==
    LET neg(i) == p.rhs[i][1] < 0
    IN  [p EXCEPT
           !.constraints = [i \in 1..Len(p.rhs) |->
               IF neg(i) THEN [j \in 1..Len(p.constraints[i]) |-> RNeg(p.constraints[i][j])]
               ELSE p.constraints[i]],
           !.rhs = [i \in 1..Len(p.rhs) |-> IF neg(i) THEN RNeg(p.rhs[i]) ELSE p.rhs[i]],
           !.constraintTypes = [i \in 1..Len(p.rhs) |->
               IF neg(i) /\ p.constraintTypes[i] = 1 THEN 2
               ELSE IF neg(i) /\ p.constraintTypes[i] = 2 THEN 1
               ELSE p.constraintTypes[i]]]

\* BigMMethod() followed by getUserInput: main then calls solve().
BigMInit ==
    /\ BranchAndBoundIdle
    /\ KnapsackIdle
    /\ TSPIdle
    /\ PathSolverIdle
    /\ \E typed \in BigMTyped :
        LET p == BigMNormalized(typed)
        IN  bigM = [isMaximization |-> p.isMaximization, objective |-> p.objective,
                    constraints |-> p.constraints, rhs |-> p.rhs,
                    constraintTypes |-> p.constraintTypes, M |-> R(BigMDefaultM),
                    tableau |-> <<>>, basicVars |-> <<>>, artificialIndices |-> <<>>,
                    iteration |-> 0, output |-> <<>>, solution |-> <<>>,
                    pc |-> "solve"]

\* The objective row after the rows 1..i whose basic variable is artificial
\* have been subtracted, each times the coefficient the row then holds in
\* that column.
RECURSIVE BigMEliminate(_, _, _, _, _)
BigMEliminate(objRow, rows, bv, art, i) ==
    IF i > Len(bv) THEN objRow
    ELSE LET coef == objRow[bv[i]]
         IN  BigMEliminate(
                 IF bv[i] \in art /\ GtEps(RAbs(coef))
                 THEN [j \in 1..Len(objRow) |-> RSub(objRow[j], RMul(coef, rows[i][j]))]
                 ELSE objRow,
                 rows, bv, art, i + 1)

\* createInitialTableau: columns x | slack | surplus | artificial | rhs.
BigMcreateInitialTableau(p) ==
    LET n == Len(p.objective)
        types == p.constraintTypes
        m == Len(types)
        before(i, S) == Cardinality({k \in 1..(i - 1) : types[k] \in S})
        numSlack == before(m + 1, {1})
        numSurplus == before(m + 1, {2})
        numArtificial == before(m + 1, {2, 3})
        numCols == n + numSlack + numSurplus + numArtificial + 1
        slackIdx == [i \in 1..m |-> n + before(i, {1}) + 1]
        surplusIdx == [i \in 1..m |-> n + numSlack + before(i, {2}) + 1]
        artificialIdx == [i \in 1..m |-> n + numSlack + numSurplus + before(i, {2, 3}) + 1]
        rows == [i \in 1..m |-> [j \in 1..numCols |->
                    IF j <= n THEN p.constraints[i][j]
                    ELSE IF j = numCols THEN p.rhs[i]
                    ELSE IF types[i] = 1 /\ j = slackIdx[i] THEN One
                    ELSE IF types[i] = 2 /\ j = surplusIdx[i] THEN RNeg(One)
                    ELSE IF types[i] # 1 /\ j = artificialIdx[i] THEN One
                    ELSE Zero]]
        bv == [i \in 1..m |-> IF types[i] = 1 THEN slackIdx[i] ELSE artificialIdx[i]]
        art == {artificialIdx[i] : i \in {k \in 1..m : types[k] # 1}}
        objRow == [j \in 1..numCols |->
                    IF j <= n THEN (IF p.isMaximization THEN RNeg(p.objective[j])
                                    ELSE p.objective[j])
                    ELSE IF j \in art THEN (IF p.isMaximization THEN p.M ELSE RNeg(p.M))
                    ELSE Zero]
    IN  [tableau |-> Append(rows, BigMEliminate(objRow, rows, bv, art, 1)),
         basicVars |-> bv,
         artificialIndices |-> art]

RECURSIVE BigMScanPivotColumn(_, _, _, _, _)
BigMScanPivotColumn(zRow, j, best, idx, isMax) ==
    IF j > Len(zRow) - 1 THEN idx
    ELSE IF (IF isMax THEN LtEps(zRow[j], best) ELSE LtEps(best, zRow[j]))
         THEN BigMScanPivotColumn(zRow, j + 1, zRow[j], j, isMax)
         ELSE BigMScanPivotColumn(zRow, j + 1, best, idx, isMax)

BigMfindPivotColumn(tab, isMax) == BigMScanPivotColumn(tab[Len(tab)], 1, Zero, 0, isMax)

RECURSIVE BigMScanPivotRow(_, _, _, _, _)
BigMScanPivotRow(tab, col, i, minRatio, minRow) ==
    IF i > Len(tab) - 1 THEN minRow
    ELSE IF GtEps(tab[i][col])
            /\ RLt(RDiv(tab[i][Len(tab[i])], tab[i][col]), minRatio)
         THEN BigMScanPivotRow(tab, col, i + 1,
                               RDiv(tab[i][Len(tab[i])], tab[i][col]), i)
         ELSE BigMScanPivotRow(tab, col, i + 1, minRatio, minRow)

BigMfindPivotRow(tab, col) == BigMScanPivotRow(tab, col, 1, Huge, 0)

BigMperformPivot(tab, pRow, pCol) ==
    LET pivotElement == tab[pRow][pCol]
        prow == [j \in 1..Len(tab[pRow]) |-> RDiv(tab[pRow][j], pivotElement)]
    IN  [i \in 1..Len(tab) |->
            IF i = pRow THEN prow
            ELSE LET factor == tab[i][pCol]
                 IN  IF factor[1] = 0 THEN tab[i]
                     ELSE [j \in 1..Len(tab[i]) |->
                              RSub(tab[i][j], RMul(factor, prow[j]))]]

\* An artificial column is basic in a row whose right-hand side exceeds 1e-6.
checkArtificialInBasis(tab, bv, art) ==
    \E i \in 1..Len(bv) : bv[i] \in art /\ GtTol(tab[i][Len(tab[i])])

\* The values displaySolution prints for x1..xn.
BigMSolution(n, tab, bv) ==
    [j \in 1..n |->
        IF \E i \in 1..Len(bv) : bv[i] = j
        THEN LET i == CHOOSE k \in 1..Len(bv) :
                          bv[k] = j /\ \A l \in 1..Len(bv) : bv[l] = j => l <= k
             IN  tab[i][Len(tab[i])]
        ELSE Zero]

BigMpivotCol == BigMfindPivotColumn(bigM.tableau, bigM.isMaximization)
BigMpivotRow == BigMfindPivotRow(bigM.tableau, BigMpivotCol)

\* STEP 2 begins: the initial tableau is built and iteration is set to 0.
BigMStart ==
    /\ bigM.pc = "solve"
    /\ LET t == BigMcreateInitialTableau(bigM)
       IN  bigM' = [bigM EXCEPT !.tableau = t.tableau, !.basicVars = t.basicVars,
                                !.artificialIndices = t.artificialIndices,
                                !.iteration = 0, !.pc = "loop"]
    /\ UNCHANGED <<branchAndBound, knapsack, tsp, pathSolver>>

\* A pass of the loop is entered: while (iteration < maxIterations).
BigMPass == bigM.pc = "loop" /\ bigM.iteration < BigMMaxIterations

\* A pass that pivots.
BigMPivot ==
    /\ BigMPass
    /\ BigMpivotCol # 0
    /\ BigMpivotRow # 0
    /\ bigM' = [bigM EXCEPT
                  !.iteration = bigM.iteration + 1,
                  !.tableau = BigMperformPivot(bigM.tableau, BigMpivotRow, BigMpivotCol),
                  !.basicVars[BigMpivotRow] = BigMpivotCol]
    /\ UNCHANGED <<branchAndBound, knapsack, tsp, pathSolver>>

\* A pass whose ratio test finds no row: solve returns.
BigMUnbounded ==
    /\ BigMPass
    /\ BigMpivotCol # 0
    /\ BigMpivotRow = 0
    /\ bigM' = [bigM EXCEPT !.iteration = bigM.iteration + 1,
                            !.output = Append(bigM.output, "PROBLEM IS UNBOUNDED!"),
                            !.pc = "done"]
    /\ UNCHANGED <<branchAndBound, knapsack, tsp, pathSolver>>

\* A pass that finds no improving column: iteration has been counted, the
\* pass prints OPTIMAL SOLUTION REACHED! and breaks out of the loop.
BigMBreak == BigMPass /\ BigMpivotCol = 0

\* After the break, if (iteration >= maxIterations) returns.
BigMBreakAtCap ==
    /\ BigMBreak
    /\ bigM.iteration + 1 >= BigMMaxIterations
    /\ bigM' = [bigM EXCEPT !.iteration = bigM.iteration + 1,
                            !.output = bigM.output \o <<"OPTIMAL SOLUTION REACHED!",
                                                        "Maximum iterations reached!">>,
                            !.pc = "done"]
    /\ UNCHANGED <<branchAndBound, knapsack, tsp, pathSolver>>

\* After the break, checkArtificialInBasis finds the problem infeasible.
BigMInfeasible ==
    /\ BigMBreak
    /\ bigM.iteration + 1 < BigMMaxIterations
    /\ checkArtificialInBasis(bigM.tableau, bigM.basicVars, bigM.artificialIndices)
    /\ bigM' = [bigM EXCEPT !.iteration = bigM.iteration + 1,
                            !.output = bigM.output \o <<"OPTIMAL SOLUTION REACHED!",
                                                        "PROBLEM IS INFEASIBLE">>,
                            !.pc = "done"]
    /\ UNCHANGED <<branchAndBound, knapsack, tsp, pathSolver>>

\* After the break, displaySolution.
BigMDisplaySolution ==
    /\ BigMBreak
    /\ bigM.iteration + 1 < BigMMaxIterations
    /\ ~checkArtificialInBasis(bigM.tableau, bigM.basicVars, bigM.artificialIndices)
    /\ bigM' = [bigM EXCEPT !.iteration = bigM.iteration + 1,
                            !.output = bigM.output \o <<"OPTIMAL SOLUTION REACHED!",
                                                        "OPTIMAL SOLUTION">>,
                            !.solution = BigMSolution(Len(bigM.objective), bigM.tableau,
                                                      bigM.basicVars),
                            !.pc = "done"]
    /\ UNCHANGED <<branchAndBound, knapsack, tsp, pathSolver>>

\* The loop condition fails after maxIterations passes that all pivoted.
BigMLoopExhausted ==
    /\ bigM.pc = "loop"
    /\ bigM.iteration >= BigMMaxIterations
    /\ bigM' = [bigM EXCEPT !.output = Append(bigM.output, "Maximum iterations reached!"),
                            !.pc = "done"]
    /\ UNCHANGED <<branchAndBound, knapsack, tsp, pathSolver>>

BigMNext ==
    \/ BigMStart
    \/ BigMPivot
    \/ BigMUnbounded
    \/ BigMBreakAtCap
    \/ BigMInfeasible
    \/ BigMDisplaySolution
    \/ BigMLoopExhausted

BigMSpec == BigMInit /\ [][BigMNext]_vars

\* --------------------------------------------------- Big-M properties

Printed(line) == \E k \in 1..Len(bigM.output) : bigM.output[k] = line

\* C29: when a pass of the pivot loop, the 50th included, finds no improving
\* column, solve goes on to the infeasibility check and displays the optimal
\* solution unless an artificial variable is basic above 1e-6; "Maximum
\* iterations reached" is printed only when no pass found the tableau optimal.
C29_CapOnlyWithoutOptimum ==
    /\ Printed("Maximum iterations reached!") => ~Printed("OPTIMAL SOLUTION REACHED!")
    /\ bigM.pc = "done" /\ Printed("OPTIMAL SOLUTION REACHED!") =>
          IF checkArtificialInBasis(bigM.tableau, bigM.basicVars, bigM.artificialIndices)
          THEN Printed("PROBLEM IS INFEASIBLE")
          ELSE Printed("OPTIMAL SOLUTION")

\* The optimum found at a pass before the last is displayed.
C29_OptimumDisplayed ==
    /\ bigM.pc = "done"
    /\ bigM.iteration = BigMMaxIterations - 1
    /\ Printed("OPTIMAL SOLUTION")
    /\ \A j \in 1..Len(bigM.solution) : bigM.solution[j] = One

\* The cap reported after 50 passes that all pivoted.
C29_CapAfterPivots ==
    /\ bigM.pc = "done"
    /\ Printed("Maximum iterations reached!")
    /\ ~Printed("OPTIMAL SOLUTION REACHED!")

\* ------------------------------------------------------------ PathSolver
\* The stage-graph path solver of src/unnamed/part_003.  Costs are whole
\* numbers.

\* INF_VAL and NEG_INF of part_003 (1e30 and -1e30): they lie beyond every
\* sum of costs the model can form.
PathINF_VAL == 1000000000
NEG_INF == -1000000000

\* Bound of the generated inputs: the greater of the two positive costs.
MaxEdgeCost == 2

\* What is typed for an entry i -> j: one of the words "x", "-", "0", "n",
\* "no", or a number that is not written "0" (0.0 is a number).
TypedEntries ==
    {[word |-> TRUE, value |-> 0]}
    \cup {[word |-> FALSE, value |-> c] : c \in {0, 1, MaxEdgeCost}}

\* The entries asked for: j > i only.
ForwardPairs(n) == {p \in (1..n) \X (1..n) : p[1] < p[2]}

\* edges[i] after the input loop: a pair <<j, cost>> per number typed, in
\* ascending order of j.
RECURSIVE EdgesOf(_, _, _, _)
EdgesOf(typed, n, i, j) ==
    IF j > n THEN <<>>
    ELSE (IF j > i /\ ~typed[<<i, j>>].word
          THEN << <<j, typed[<<i, j>>].value>> >> ELSE <<>>)
         \o EdgesOf(typed, n, i, j + 1)

\* Every stage graph on 2, 3 or 4 nodes, in both modes.
PathInputs ==
    UNION {{[isMinimization |-> isMin, numNodes |-> n,
             edges |-> [i \in 1..n |-> EdgesOf(typed, n, i, 1)]] :
              typed \in [ForwardPairs(n) -> TypedEntries], isMin \in BOOLEAN} :
           n \in {2, 3, 4}}

\* PathSolver() followed by getUserInput: main then calls solve() and
\* displaySolution().
PathSolverInit ==
    /\ BranchAndBoundIdle
    /\ KnapsackIdle
    /\ TSPIdle
    /\ BigMIdle
    /\ \E inp \in PathInputs :
        pathSolver = [isMinimization |-> inp.isMinimization, numNodes |-> inp.numNodes,
                      edges |-> inp.edges, source |-> 1, destination |-> inp.numNodes,
                      cost |-> <<>>, nextNode |-> <<>>, node |-> 0,
                      path |-> <<>>, totalCost |-> 0, report |-> "", pc |-> "solve"]

\* cost[j] >= INF_VAL - 1 || cost[j] <= NEG_INF + 1
PathInfinite(c) == c >= PathINF_VAL - 1 \/ c <= NEG_INF + 1

\* A comparison that looks for the least total in both modes.
PathIsBetterMin(isMin, totalCost, bestCost) == totalCost < bestCost

\* isBetter
PathIsBetter(isMin, totalCost, bestCost) ==
    IF isMin THEN totalCost < bestCost ELSE totalCost > bestCost

\* The loop over edges[node] from its k-th edge on: <<bestCost, bestNext>>.
RECURSIVE ScanEdges(_, _, _, _, _, _)
ScanEdges(es, cost, isMin, k, bestCost, bestNext) ==
    IF k > Len(es) THEN <<bestCost, bestNext>>
    ELSE LET j == es[k][1]
             totalCost == es[k][2] + cost[j]
         IN  IF ~PathInfinite(cost[j]) /\ PathIsBetter(isMin, totalCost, bestCost)
             THEN ScanEdges(es, cost, isMin, k + 1, totalCost, j)
             ELSE ScanEdges(es, cost, isMin, k + 1, bestCost, bestNext)

\* solveBackwardDP, initialization: f(destination) = 0.
PathStart ==
    /\ pathSolver.pc = "solve"
    /\ pathSolver' = [pathSolver EXCEPT
          !.cost = [i \in 1..pathSolver.numNodes |->
                      IF i = pathSolver.destination THEN 0
                      ELSE IF pathSolver.isMinimization THEN PathINF_VAL ELSE NEG_INF],
          !.nextNode = [i \in 1..pathSolver.numNodes |-> 0],
          !.node = pathSolver.numNodes - 1,
          !.pc = "backward"]
    /\ UNCHANGED <<branchAndBound, knapsack, tsp, bigM>>

\* Backward pass: a node without outgoing edges is passed over.
PathSkipNode ==
    /\ pathSolver.pc = "backward"
    /\ pathSolver.node >= 1
    /\ pathSolver.edges[pathSolver.node] = <<>>
    /\ pathSolver' = [pathSolver EXCEPT !.node = pathSolver.node - 1]
    /\ UNCHANGED <<branchAndBound, knapsack, tsp, bigM>>

\* Backward pass: f(node) = min or max of c(node, j) + f(j) over its edges.
PathProcessNode ==
    /\ pathSolver.pc = "backward"
    /\ pathSolver.node >= 1
    /\ pathSolver.edges[pathSolver.node] # <<>>
    /\ LET best == ScanEdges(pathSolver.edges[pathSolver.node], pathSolver.cost,
                             pathSolver.isMinimization, 1,
                             IF pathSolver.isMinimization THEN PathINF_VAL ELSE NEG_INF, 0)
       IN  pathSolver' =
             IF best[2] > 0
             THEN [pathSolver EXCEPT !.cost[pathSolver.node] = best[1],
                                     !.nextNode[pathSolver.node] = best[2],
                                     !.node = pathSolver.node - 1]
             ELSE [pathSolver EXCEPT !.node = pathSolver.node - 1]
    /\ UNCHANGED <<branchAndBound, knapsack, tsp, bigM>>

\* The cost of the first edge from a to b in edges[a], 0 if there is none.
EdgeCost(edges, a, b) ==
    LET hits == {k \in 1..Len(edges[a]) : edges[a][k][1] = b}
    IN  IF hits = {} THEN 0
        ELSE edges[a][CHOOSE k \in hits : \A l \in hits : k <= l][2]

\* The reconstruction loop of displaySolution from node cur on:
\* <<path, totalCost>> before the final push of the destination.
RECURSIVE FollowNext(_, _, _, _, _, _)
FollowNext(edges, nextNode, dest, cur, path, totalCost) ==
    IF cur = 0 \/ cur = dest THEN <<path, totalCost>>
    ELSE IF nextNode[cur] = 0 THEN <<Append(path, cur), totalCost>>
    ELSE FollowNext(edges, nextNode, dest, nextNode[cur], Append(path, cur),
                    totalCost + EdgeCost(edges, cur, nextNode[cur]))

\* displaySolution: cost[source] is infinite.
PathNone ==
    /\ pathSolver.pc = "backward"
    /\ pathSolver.node < 1
    /\ PathInfinite(pathSolver.cost[pathSolver.source])
    /\ pathSolver' = [pathSolver EXCEPT !.report = "No path exists", !.pc = "done"]
    /\ UNCHANGED <<branchAndBound, knapsack, tsp, bigM>>

\* displaySolution: the path is rebuilt through nextNode and printed with
\* cost[source].
PathDisplay ==
    /\ pathSolver.pc = "backward"
    /\ pathSolver.node < 1
    /\ ~PathInfinite(pathSolver.cost[pathSolver.source])
    /\ LET walk == FollowNext(pathSolver.edges, pathSolver.nextNode,
                              pathSolver.destination, pathSolver.source, <<>>, 0)
       IN  pathSolver' = [pathSolver EXCEPT
                            !.path = Append(walk[1], pathSolver.destination),
                            !.totalCost = walk[2],
                            !.report = "OPTIMAL PATH", !.pc = "done"]
    /\ UNCHANGED <<branchAndBound, knapsack, tsp, bigM>>

PathSolverNext ==
    \/ PathStart
    \/ PathSkipNode
    \/ PathProcessNode
    \/ PathNone
    \/ PathDisplay

PathSolverSpec == PathSolverInit /\ [][PathSolverNext]_vars

\* ---------------------------------------------- path solver properties

\* findAllPaths: the paths from cur to dest along edges, each a sequence of
\* nodes.  Edges lead to higher nodes, so no path meets a node twice.
RECURSIVE findAllPaths(_, _, _)
findAllPaths(edges, cur, dest) ==
    IF cur = dest THEN {<<dest>>}
    ELSE UNION {{<<cur>> \o p : p \in findAllPaths(edges, edges[cur][k][1], dest)} :
                  k \in 1..Len(edges[cur])}

RECURSIVE PathCostFrom(_, _, _)
PathCostFrom(edges, p, k) ==
    IF k >= Len(p) THEN 0
    ELSE EdgeCost(edges, p[k], p[k + 1]) + PathCostFrom(edges, p, k + 1)

PathCost(edges, p) == PathCostFrom(edges, p, 1)

AllPaths == findAllPaths(pathSolver.edges, pathSolver.source, pathSolver.destination)

\* C30: after the backward pass and displaySolution, cost[1] is the least
\* (shortest mode) or greatest (longest mode) total cost over all paths from
\* node 1 to node numNodes, and the path followed through nextNode is one of
\* those paths and has that total cost; when there is no path cost[1] is
\* still infinite and "No path exists" is reported.
C30_BackwardDP ==
    pathSolver.pc = "done" =>
        IF AllPaths = {}
        THEN /\ pathSolver.cost[1] = (IF pathSolver.isMinimization THEN PathINF_VAL ELSE NEG_INF)
             /\ pathSolver.report = "No path exists"
        ELSE /\ pathSolver.report = "OPTIMAL PATH"
             /\ \A p \in AllPaths :
                   IF pathSolver.isMinimization
                   THEN pathSolver.cost[1] <= PathCost(pathSolver.edges, p)
                   ELSE pathSolver.cost[1] >= PathCost(pathSolver.edges, p)
             /\ pathSolver.path \in AllPaths
             /\ PathCost(pathSolver.edges, pathSolver.path) = pathSolver.cost[1]
             /\ pathSolver.totalCost = pathSolver.cost[1]

\* A longest path on 4 nodes has been displayed where a shorter path exists
\* and a node on no path to the destination was passed.
C30_Witness ==
    /\ pathSolver.pc = "done"
    /\ ~pathSolver.isMinimization
    /\ pathSolver.numNodes = 4
    /\ Len(pathSolver.path) = 4
    /\ \E p \in AllPaths : PathCost(pathSolver.edges, p) < pathSolver.cost[1]

\* A shortest path chosen among several, over a zero-cost edge.
C30_WitnessShortest ==
    /\ pathSolver.pc = "done"
    /\ pathSolver.isMinimization
    /\ pathSolver.cost[1] = 0
    /\ Len(pathSolver.path) = 3
    /\ \E p \in AllPaths : PathCost(pathSolver.edges, p) > 0

\* Edges leave node 1, yet none of them leads on to the destination.
C30_WitnessNoPath ==
    /\ pathSolver.pc = "done"
    /\ pathSolver.report = "No path exists"
    /\ pathSolver.edges[1] # <<>>

====
